---- MODULE Spec2Model ----
(***************************************************************************)
(* A model of jqsh (bmatsuo/jqsh): the session loop of JQShell, the input  *)
(* source manager, the command handlers, and the cancellable wrapper       *)
(* Execute around the external jq process.                                 *)
(*                                                                         *)
(* Two specifications share the module:                                    *)
(*   Spec      the session loop (JQShell.loop) with its reader and         *)
(*             executor goroutines and the handlers they dispatch;         *)
(*   SpecX     one call of Execute racing the process against stop.        *)
(***************************************************************************)
EXTENDS Naturals, Integers, Sequences, FiniteSets, TLC

\* ---------------------------------------------------------------- bounds
\* number of ReadCommand calls explored in one session
MaxReads == 3
\* number of bytes the external process may write during one Execute call
MaxBytes == 3

\* ---------------------------------------------------------------- errors
\* A Go error value is a sequence of strings; the empty sequence is nil and
\* an ExecError wrapping err is err with "ExecError" in front.
ErrNil == <<>>
ShellExit == <<"exit">>
ErrEOF == <<"EOF">>
ErrInvalid == <<"InvalidCommandError">>
ErrRead == <<"read error">>
ErrNoInput == <<"no input">>
ErrStackEmpty == <<"the stack is empty">>
ErrUnknown == <<"unknown command">>
ErrOpen == <<"open error">>
ErrStart == <<"start error">>
ErrExit1 == <<"exit status 1">>
ErrMissing == <<"missing command">>
ErrOneCommand == <<"expect exactly one command">>
ErrInAndOut == <<"command cannot be both input and output">>
ErrBothFiles == <<"both -o and -O given">>
ErrTooMany == <<"too many arguments given">>
ErrNotInt == <<"argument must be an integer">>
ErrNegative == <<"argument must be positive">>
ErrOneFile == <<"expects one filename">>
ErrFileOutput == <<"file output not allowed">>
ErrTmpFile == <<"creating temp file">>
ErrCopy == <<"copy error">>
ErrCopyingFile == <<"copying file">> \o ErrCopy
ErrNoEscape == <<"missing escape for quote character">>
ErrPipe == <<"pipe error">>
ErrCreate == <<"create error">>
ErrTimeout == <<"jq timed out processing the filter">>
\* fmt.Errorf("%s (%v)", errbuf.Bytes(), err)
ErrFilter(err) == <<"stderr of jq">> \o err
\* the run-time panics of an index expression out of range and of a call
\* through a nil interface: the process dies
ErrPanic == <<"panic: index out of range">>
ErrNilDeref == <<"panic: nil pointer dereference">>

ExecError(err) == <<"ExecError">> \o err

isShellExit_noUnwrap(err) ==
    IF err = ErrNil THEN FALSE
    ELSE err = ShellExit

RECURSIVE isShellExit(_)
isShellExit(err) ==
    IF err = ErrNil THEN FALSE
    ELSE IF err = ShellExit THEN TRUE
    ELSE IF Head(err) = "ExecError" THEN isShellExit(Tail(err))
    ELSE FALSE

\* ------------------------------------------------------------ file names
\* names handed out by ioutil.TempFile("", "jqsh-exec-"), in order
TmpNames == <<"jqsh-exec-1", "jqsh-exec-2", "jqsh-exec-3",
              "jqsh-exec-4", "jqsh-exec-5", "jqsh-exec-6">>
TmpSet == {TmpNames[i] : i \in 1..Len(TmpNames)}
UserFiles == {"data.json"}

VARIABLES
    version,      \* which JQShell.loop runs: "commands.go" or "jqsh.go"
    sh,           \* JQShell fields: Stack, filename, istmp, inputfn, err
    fs,           \* file system: the names of the files there are, the
                  \* os.Remove calls per name, the names os.Create was given,
                  \* the number of temporary files made
    stop,         \* the stop channel of loop is closed
    stopCloses,   \* number of close(stop) calls
    ready,        \* tokens buffered in the ready channel
    readers,      \* goroutines running ReadCommand / blocked sending on cmdch
    execs,        \* goroutines executing a received command
    loopPc,       \* "select" | "blocked" | "returned"
    waitPc,       \* Wait of the main goroutine: "waiting" | "returned"
    waitErr,      \* the error Wait returned
    ngo,          \* goroutines spawned so far
    nread,        \* ReadCommand calls so far
    readIds,      \* ids of the read results that carried a command
    execIds,      \* ids of the commands handed to Lib.Execute, in order
    outstanding,  \* commands read whose execution has not finished
    finalSeen,    \* ReadCommand has returned a result flagged final
    fatalSeen,    \* the loop has handled a read error other than EOF/invalid
    quitSeen,     \* a dispatched command has returned the quit outcome
    lastErr,      \* the error of the command executed last, until
                  \* ReadCommand returns the next one
    logs,         \* what the loop logged for the result it handled last,
                  \* until ReadCommand returns the next one
    xpc, xstopKind, xstop, proc, status, waiter, done, doneClosed,
    outn, errn, xres, xpath, killCalls, exitedFirst, stopAtReturn, launchOK,
    pipe,         \* JQStack.pipe of a stack exercised on its own
    sop,          \* the last operation on that stack and what it returned
    nops,         \* operations on that stack so far
    npushed,      \* Push calls on that stack so far
    popsum,       \* sum of the pop counts since the last Push
    rin,          \* bytes the SimpleShellReader has not read yet
    rline,        \* the line the last ReadCommand call returned a result for
    rout,         \* the result of the last ReadCommand call
    rcalls,       \* ReadCommand calls so far
    wr,           \* one call of cmdWrite_page, cmdWrite_file or testFilter
    pg,           \* the pager that Page started, and its error channel
    qs,           \* a session of commands run one after the other
    lib,          \* the registry of a Lib: commands and help topics
    lx            \* a shellParser lexing one line

loopVars == <<version, sh, fs, stop, stopCloses, ready, readers, execs, loopPc,
              waitPc, waitErr, ngo, nread, readIds, execIds, outstanding,
              finalSeen, fatalSeen, quitSeen, lastErr, logs>>
xVars == <<xpc, xstopKind, xstop, proc, status, waiter, done, doneClosed,
           outn, errn, xres, xpath, killCalls, exitedFirst, stopAtReturn,
           launchOK>>
sVars == <<pipe, sop, nops, npushed, popsum>>
rVars == <<rin, rline, rout, rcalls>>
wVars == <<wr, pg>>
oVars == <<qs, lib, lx>>
pVars == <<pipe, sop, nops, npushed, popsum, rin, rline, rout, rcalls, wr, pg,
           qs, lib, lx>>
vars == <<version, sh, fs, stop, stopCloses, ready, readers, execs, loopPc,
          waitPc, waitErr, ngo, nread, readIds, execIds, outstanding,
          finalSeen, fatalSeen, quitSeen, lastErr, logs,
          xpc, xstopKind, xstop, proc, status, waiter, done, doneClosed,
          outn, errn, xres, xpath, killCalls, exitedFirst, stopAtReturn,
          launchOK,
          pipe, sop, nops, npushed, popsum, rin, rline, rout, rcalls,
          wr, pg, qs, lib, lx>>

\* ------------------------------------------------------------ JQStack
Push(s, f) == Append(s, f)

RECURSIVE Pop_skipsEmptyFilters(_)
Pop_skipsEmptyFilters(s) ==
    IF Len(s) = 0 THEN [s |-> s, err |-> ErrStackEmpty]
    ELSE IF s[Len(s)] = <<>> /\ Len(s) > 1
    THEN Pop_skipsEmptyFilters(SubSeq(s, 1, Len(s) - 1))
    ELSE [s |-> SubSeq(s, 1, Len(s) - 1), err |-> ErrNil]

\* JQStack.Pop(): the last filter is removed; empty stack gives ErrStackEmpty
Pop(s) ==
    IF Len(s) = 0 THEN [s |-> s, err |-> ErrStackEmpty]
    ELSE [s |-> SubSeq(s, 1, Len(s) - 1), err |-> ErrNil]

\* JQStack.Pop(n): removes min(n, depth) entries, ErrStackEmpty on depth 0
PopN(s, n) ==
    IF Len(s) = 0 THEN [s |-> s, err |-> ErrStackEmpty]
    ELSE [s |-> SubSeq(s, 1, IF n >= Len(s) THEN 0 ELSE Len(s) - n),
          err |-> ErrNil]

PopAll(s) == <<>>

PopLoop_once(s, n) == IF n = 0 THEN s ELSE Pop(s).s

RECURSIVE PopLoop(_, _)
PopLoop(s, n) == IF n = 0 THEN s ELSE PopLoop(Pop(s).s, n - 1)

\* JQStack.JQFilter: the fragments of the filters of the stack, appended in
\* stack order
RECURSIVE JQFilter(_)
JQFilter(p) ==
    IF p = <<>> THEN <<>>
    ELSE JQFilter(SubSeq(p, 1, Len(p) - 1)) \o p[Len(p)]

FilterJoinString == " | "

\* strings.Join
RECURSIVE Join(_, _)
Join(elems, sep) ==
    IF Len(elems) = 0 THEN ""
    ELSE IF Len(elems) = 1 THEN elems[1]
    ELSE elems[1] \o sep \o Join(Tail(elems), sep)

JoinFilter_noIdentity(frags) == Join(frags, FilterJoinString)

\* JoinFilter applied to a filter whose JQFilter() is frags
JoinFilter(frags) ==
    IF Len(frags) = 0 THEN "."
    ELSE Join(frags, FilterJoinString)

\* FilterString.JQFilter: the one fragment of a filter given as a string
FilterStrings(stack) == [i \in 1..Len(stack) |-> <<stack[i]>>]

\* args = append(args, JoinFilter(s)) for the stack of a session
StackFilter(stack) == JoinFilter(JQFilter(FilterStrings(stack)))

\* ------------------------------------------------------------ input source
\* os.Remove(path) applied to the file system; removes counts the calls
Remove(f, path) ==
    [f EXCEPT !.files = @ \ {path},
              !.removes = [p \in DOMAIN f.removes \cup {path} |->
                             IF p # path THEN f.removes[p]
                             ELSE IF p \in DOMAIN f.removes
                             THEN f.removes[p] + 1
                             ELSE 1]]

ClearInput(w) ==
    LET w1 == [w EXCEPT !.sh.inputfn = ""]
    IN IF w1.sh.filename # "" /\ w1.sh.istmp
       THEN [w1 EXCEPT !.fs = Remove(@, w1.sh.filename)]
       ELSE w1

SetInputFile_noClear(w, path, istmp) ==
    [w EXCEPT !.sh.inputfn = "", !.sh.filename = path, !.sh.istmp = istmp]

SetInputFile(w, path, istmp) ==
    [ClearInput(w) EXCEPT !.sh.inputfn = "", !.sh.filename = path,
                          !.sh.istmp = istmp]

SetInput(w, fn) == [ClearInput(w) EXCEPT !.sh.inputfn = fn]

HasInput(w) == w.sh.filename # "" \/ w.sh.inputfn # ""

\* the error _pipeInput returns when the command's pipe cannot be made or
\* the command cannot be started
StartErr(env) ==
    IF ~env.pipeok THEN ErrPipe
    ELSE IF ~env.startok THEN ErrStart
    ELSE ErrNil

\* JQShell.Input: which source a query opens, or the error: of os.Open for
\* a file name, of the producer function (its pipe or its start) otherwise
Input(w, env) ==
    IF w.sh.filename # ""
    THEN IF w.sh.filename \in w.fs.files
         THEN [kind |-> "file", src |-> w.sh.filename, err |-> ErrNil]
         ELSE [kind |-> "none", src |-> "", err |-> ErrOpen]
    ELSE IF w.sh.inputfn # ""
         THEN IF StartErr(env) # ErrNil
              THEN [kind |-> "none", src |-> "", err |-> StartErr(env)]
              ELSE [kind |-> "producer", src |-> w.sh.inputfn, err |-> ErrNil]
         ELSE [kind |-> "none", src |-> "", err |-> ErrNoInput]

\* the element of a one-element set: Only({F(x) : x \in {e}}) is F(e) with e
\* computed once
Only(S) == CHOOSE x \in S : TRUE

\* ------------------------------------------------------------ command flags
\* CmdFlags wraps a flag.FlagSet made with flag.ContinueOnError.  A handler
\* declares its flags, here the names of its Bool flags and of its String
\* flags, and calls Parse on the words that follow the command name.
Decl(bools, strs) == [bools |-> bools, strs |-> strs]
NoFlags == Decl({}, {})

ErrHelp == <<"flag: help requested">>
ErrBadSyntax == <<"bad flag syntax">>
ErrNotDefined == <<"flag provided but not defined">>
ErrBadBool == <<"invalid boolean value">>
ErrNeedsArg == <<"flag needs an argument">>

IsHelp(err) == err = ErrHelp

\* strconv.ParseBool, which sets a Bool flag given as -name=value
ParseBoolTrue == {"1", "t", "T", "TRUE", "true", "True"}
ParseBoolFalse == {"0", "f", "F", "FALSE", "false", "False"}

\* a flag set while it is parsed: the error, the Bool flags that are true,
\* the values of the String flags, the words not consumed yet
FlagSet(err, on, val, args) ==
    [err |-> err, on |-> on, val |-> val, args |-> args]

\* the position of the first "=" of name at or after i, or 0
RECURSIVE EqualsAt(_, _)
EqualsAt(name, i) ==
    IF i > Len(name) THEN 0
    ELSE IF SubSeq(name, i, i) = "=" THEN i
    ELSE EqualsAt(name, i + 1)

\* what parseOne returns: whether a flag was seen, and the flag set
Seen(p) == [seen |-> TRUE, p |-> p]
Done(p, err) == [seen |-> FALSE, p |-> [p EXCEPT !.err = err]]

\* parseOne once the word is known to be a flag: p.args is already past it
setFlag(decl, p, name, hasValue, value) ==
    IF name \in decl.bools
    THEN IF ~hasValue THEN Seen([p EXCEPT !.on = @ \cup {name}])
         ELSE IF value \in ParseBoolTrue THEN Seen([p EXCEPT !.on = @ \cup {name}])
         ELSE IF value \in ParseBoolFalse THEN Seen([p EXCEPT !.on = @ \ {name}])
         ELSE Done(p, ErrBadBool)
    ELSE IF name \in decl.strs
    THEN IF hasValue THEN Seen([p EXCEPT !.val[name] = value])
         ELSE IF Len(p.args) > 0
         THEN Seen([p EXCEPT !.val[name] = Head(p.args), !.args = Tail(p.args)])
         ELSE Done(p, ErrNeedsArg)
    ELSE IF name \in {"help", "h"} THEN Done(p, ErrHelp)
    ELSE Done(p, ErrNotDefined)

\* parseOne on the text of the word after its one or two minus signs
parseName(decl, p, body) ==
    IF Len(body) = 0 \/ SubSeq(body, 1, 1) \in {"-", "="}
    THEN Done(p, ErrBadSyntax)
    ELSE Only({setFlag(decl, [p EXCEPT !.args = Tail(@)],
                       IF eq = 0 THEN body ELSE SubSeq(body, 1, eq - 1),
                       eq # 0,
                       IF eq = 0 THEN "" ELSE SubSeq(body, eq + 1, Len(body))) :
                 eq \in {EqualsAt(body, 2)}})

\* FlagSet.parseOne: a word shorter than two characters or not starting with
\* "-" ends the flags and stays an argument, "--" ends them and is dropped
parseWord(decl, p, s) ==
    IF Len(s) < 2 \/ SubSeq(s, 1, 1) # "-" THEN Done(p, ErrNil)
    ELSE IF s = "--" THEN Done([p EXCEPT !.args = Tail(@)], ErrNil)
    ELSE parseName(decl, p, SubSeq(s, IF SubSeq(s, 2, 2) = "-" THEN 3 ELSE 2,
                                   Len(s)))

parseOne(decl, p) ==
    IF Len(p.args) = 0 THEN Done(p, ErrNil)
    ELSE parseWord(decl, p, Head(p.args))

\* FlagSet.Parse: parseOne until it sees no flag
RECURSIVE ParseLoop(_, _)
ParseLoop(decl, p) ==
    Only({IF r.seen THEN ParseLoop(decl, r.p) ELSE r.p :
            r \in {parseOne(decl, p)}})

\* CmdFlags.Parse(nil) on the words args: afterwards err is the error, on and
\* val hold the flags, args is what Args() returns
Parse(decl, args) ==
    ParseLoop(decl, FlagSet(ErrNil, {}, [n \in decl.strs |-> ""], args))

\* the declared Bool flag name was given
HasFlag(f, name) == name \in f.on

\* CmdFlags.Args() after Parse
Args(decl, args) == Parse(decl, args).args

\* the flags each handler declares
FlagNames(name, ver) ==
    IF ver = "jqsh.go"
    THEN CASE name = "exec" -> Decl({"ignore", "c"}, {"o", "O"})
           [] name = "sh" -> Decl({"-color"}, {})
           [] name = "filter" -> Decl({"jq"}, {"quote"})
           [] name = "script" -> Decl({"oneline", "F"}, {"f", "o"})
           [] OTHER -> NoFlags
    ELSE CASE name = "push" -> Decl({"q"}, {})
           [] name = "pop" -> Decl({"q"}, {})
           [] name = "load" -> Decl({"q", "k"}, {})
           [] name = "pipe" -> Decl({"in", "out", "q", "k", "ignore", "c",
                                     "color"}, {"o", "O"})
           [] name = "filter" -> Decl({"jq"}, {"quote"})
           [] name = "script" -> Decl({"oneline", "F"}, {"f", "o"})
           [] OTHER -> NoFlags

\* the command line cmd after Parse by its handler
Flags(cmd, ver) == Parse(FlagNames(Head(cmd), ver), Tail(cmd))

\* a word that parseOne leaves as an argument when it meets it
IsPositional(a) == Len(a) < 2 \/ SubSeq(a, 1, 1) # "-"

\* ------------------------------------------------------------ bytes
\* A []byte, and a string where its bytes matter (the reader's and the
\* lexer's input, the words they return), is the sequence of its bytes,
\* numbers in 0..255.  Bytes gives the bytes of a text of ASCII characters.
AsciiUpper ==
    " !\"#$%&'()*+,-./0123456789:;<=>?@ABCDEFGHIJKLMNOPQRSTUVWXYZ[\\]^_"
AsciiLower == "abcdefghijklmnopqrstuvwxyz{|}~"

IndexIn(text, c) == CHOOSE i \in 1..Len(text) : SubSeq(text, i, i) = c

ByteOf(c) ==
    CASE c = "\t" -> 9
      [] c = "\n" -> 10
      [] c = "\f" -> 12
      [] c = "\r" -> 13
      [] \E i \in 1..Len(AsciiLower) : SubSeq(AsciiLower, i, i) = c
           -> 96 + IndexIn(AsciiLower, c)
      [] OTHER -> 31 + IndexIn(AsciiUpper, c)

RECURSIVE Bytes(_)
Bytes(s) ==
    IF Len(s) = 0 THEN <<>>
    ELSE <<ByteOf(SubSeq(s, 1, 1))>> \o Bytes(SubSeq(s, 2, Len(s)))

\* utf8.RuneError
RuneError == 65533

\* a continuation byte 10xxxxxx
IsCont(b) == b \in 128..191

\* utf8.RuneStart
RuneStart(b) == ~IsCont(b)

\* the second byte a first byte b0 of a 3- or 4-byte encoding admits
SecondOf(b0) ==
    CASE b0 = 224 -> 160..191
      [] b0 = 237 -> 128..159
      [] b0 = 240 -> 144..191
      [] b0 = 244 -> 128..143
      [] OTHER -> 128..191

\* utf8.DecodeRune(bs[i-1:]) for 1 <= i <= Len(bs): the rune r and its width
\* n; what is not the UTF-8 encoding of a rune is (RuneError, 1)
DecodeRune(bs, i) ==
    LET left == Len(bs) - i + 1
        b0 == bs[i]
    IN IF b0 < 128 THEN [r |-> b0, n |-> 1]
       ELSE IF b0 \in 194..223 /\ left >= 2 /\ IsCont(bs[i + 1])
       THEN [r |-> (b0 - 192) * 64 + (bs[i + 1] - 128), n |-> 2]
       ELSE IF /\ b0 \in 224..239 /\ left >= 3
               /\ bs[i + 1] \in SecondOf(b0) /\ IsCont(bs[i + 2])
       THEN [r |-> (b0 - 224) * 4096 + (bs[i + 1] - 128) * 64
                       + (bs[i + 2] - 128),
             n |-> 3]
       ELSE IF /\ b0 \in 240..244 /\ left >= 4
               /\ bs[i + 1] \in SecondOf(b0) /\ IsCont(bs[i + 2])
               /\ IsCont(bs[i + 3])
       THEN [r |-> (b0 - 240) * 262144 + (bs[i + 1] - 128) * 4096
                       + (bs[i + 2] - 128) * 64 + (bs[i + 3] - 128),
             n |-> 4]
       ELSE [r |-> RuneError, n |-> 1]

\* utf8.DecodeLastRune(bs) for a bs that is not empty: the decoding starts
\* at the last byte that can start a rune among the four last ones
DecodeLastRune(bs) ==
    LET end == Len(bs)
        lim == IF end > 4 THEN end - 4 ELSE 0
        starts == {s \in (lim + 1)..(end - 1) : RuneStart(bs[s])}
        start == IF starts # {} THEN CHOOSE s \in starts : \A t \in starts : t <= s
                 ELSE IF lim = 0 THEN 1 ELSE lim
        d == DecodeRune(bs, start)
    IN IF bs[end] < 128 THEN [r |-> bs[end], n |-> 1]
       ELSE IF start + d.n - 1 # end THEN [r |-> RuneError, n |-> 1]
       ELSE d

\* unicode.IsSpace: in Latin-1 '\t', '\n', '\v', '\f', '\r', ' ', U+0085 and
\* U+00A0; above it the runes of category Z and property Pattern_White_Space:
\* U+1680, U+2000 to U+200A, U+2028, U+2029, U+202F, U+205F, U+3000
UnicodeSpace ==
    {9, 10, 11, 12, 13, 32, 133, 160, 5760} \cup (8192..8202)
        \cup {8232, 8233, 8239, 8287, 12288}

IsSpace(r) == r \in UnicodeSpace

\* unicode.IsSpace of the rune that starts at byte i (1-based) of bs
IsSpaceAt(bs, i) == IsSpace(DecodeRune(bs, i).r)

\* ------------------------------------------------------------ numbers
DecDigits == "0123456789"
IsDigit(c) == \E d \in 1..10 : SubSeq(DecDigits, d, d) = c
DigitVal(c) == (CHOOSE d \in 1..10 : SubSeq(DecDigits, d, d) = c) - 1

Min(a, b) == IF a <= b THEN a ELSE b

\* the text of a number without its sign
Unsigned(a) ==
    IF Len(a) > 0 /\ SubSeq(a, 1, 1) \in {"+", "-"} THEN SubSeq(a, 2, Len(a))
    ELSE a

Negative(a) == Len(a) > 0 /\ SubSeq(a, 1, 1) = "-"

RECURSIVE StripZeros(_)
StripZeros(a) ==
    IF Len(a) > 1 /\ SubSeq(a, 1, 1) = "0" THEN StripZeros(SubSeq(a, 2, Len(a)))
    ELSE a

\* a <= b for two texts of digits of the same length
RECURSIVE DigitsLeq(_, _)
DigitsLeq(a, b) ==
    IF Len(a) = 0 THEN TRUE
    ELSE IF DigitVal(SubSeq(a, 1, 1)) < DigitVal(SubSeq(b, 1, 1)) THEN TRUE
    ELSE IF DigitVal(SubSeq(a, 1, 1)) > DigitVal(SubSeq(b, 1, 1)) THEN FALSE
    ELSE DigitsLeq(SubSeq(a, 2, Len(a)), SubSeq(b, 2, Len(b)))

\* the largest and the smallest int (64 bits), without sign
MaxInt == "9223372036854775807"
MinInt == "9223372036854775808"

\* the number is one an int holds
InRange(a) ==
    LET d == StripZeros(Unsigned(a))
        lim == IF Negative(a) THEN MinInt ELSE MaxInt
    IN Len(d) < Len(lim) \/ (Len(d) = Len(lim) /\ DigitsLeq(d, lim))

\* strconv.Atoi returns no error: an optional sign, then decimal digits
IsInt(a) ==
    /\ Len(Unsigned(a)) > 0
    /\ \A i \in 1..Len(Unsigned(a)) : IsDigit(SubSeq(Unsigned(a), i, i))
    /\ InRange(a)

\* An int has 64 bits and the integers of the checker 32: an int is kept as
\* its decimal numeral, the digits without leading zeros, "-" before them
\* when it is below zero.
\* strconv.Atoi of a text that IsInt
Atoi(a) ==
    LET d == StripZeros(Unsigned(a))
    IN IF Negative(a) /\ d # "0" THEN "-" \o d ELSE d

\* fmt.Sprint of a natural number
RECURSIVE Sprint(_)
Sprint(n) ==
    IF n < 10 THEN SubSeq(DecDigits, n + 1, n + 1)
    ELSE Sprint(n \div 10) \o SubSeq(DecDigits, (n % 10) + 1, (n % 10) + 1)

\* the value of a text of digits
RECURSIVE DigitsValue(_, _)
DigitsValue(a, acc) ==
    IF Len(a) = 0 THEN acc
    ELSE DigitsValue(SubSeq(a, 2, Len(a)), acc * 10 + DigitVal(SubSeq(a, 1, 1)))

\* min(n, k) for an int n >= 0 and a length k: a numeral longer than that of
\* k is above k
Capped(n, k) ==
    IF Len(n) > Len(Sprint(k)) THEN k ELSE Min(DigitsValue(n, 0), k)

\* ------------------------------------------------------------ environment
\* What the world outside the shell answers during one handler:
\*   test     testFilter's jq: "ok", "exit" (a bad filter), "timeout"
\*   page     what cmdWrite_page finds on errch right after Page: "running"
\*            (nothing), "pipe" or "start" (Page failed), "exit1" or "exit0"
\*            (the pager has already exited; errch is closed after exit 0)
\*   jqok     the jq of a write exits with status 0
\*   pipeok   the pipe to or from the shell command can be made
\*   startok  the shell command starts
\*   copyok   io.Copy of the command's output, or of the raw input, succeeds
\*   createok os.Create and ioutil.TempFile succeed
\*   waitok   the shell command fed by pipe -out exits with status 0
PageOutcomes == {"running", "pipe", "start", "exit1", "exit0"}

Env == [test : {"ok", "exit", "timeout"}, page : PageOutcomes,
        jqok : BOOLEAN, pipeok : BOOLEAN, startok : BOOLEAN,
        copyok : BOOLEAN, createok : BOOLEAN, waitok : BOOLEAN]

EnvOK == [test |-> "ok", page |-> "running", jqok |-> TRUE, pipeok |-> TRUE,
          startok |-> TRUE, copyok |-> TRUE, createok |-> TRUE,
          waitok |-> TRUE]

\* the answers explored: a handler returns at the first thing that fails, so
\* at most one answer differs from the good one
Envs ==
    {EnvOK}
    \cup {[EnvOK EXCEPT !.test = t] : t \in {"exit", "timeout"}}
    \cup {[EnvOK EXCEPT !.page = p] : p \in {"start", "exit0"}}
    \cup {[EnvOK EXCEPT !.jqok = FALSE], [EnvOK EXCEPT !.pipeok = FALSE],
          [EnvOK EXCEPT !.startok = FALSE], [EnvOK EXCEPT !.copyok = FALSE],
          [EnvOK EXCEPT !.createok = FALSE], [EnvOK EXCEPT !.waitok = FALSE]}

Ret(w, err) == [w |-> w, err |-> err]

\* err := flags.Parse(nil); if IsHelp(err) { return nil }; if err != nil {
\* return err }; and then the rest of the handler, which returns r
Checked(f, w, r) ==
    IF IsHelp(f.err) THEN Ret(w, ErrNil)
    ELSE IF f.err # ErrNil THEN Ret(w, f.err)
    ELSE r

\* ------------------------------------------------------------ handlers
\* Execute(w, os.Stderr, r, stop, jq.bin, color, jq.Stack) as cmdWrite_io
\* calls it: the expression given to jq and what jq reads
JqCall(w, env) == [expr |-> StackFilter(w.sh.Stack), in |-> Input(w, env)]

\* the error of cmd.Start in Page: an *exec.Error, which names the pager
ErrPagerStart == <<"less">> \o ErrStart

\* what cmdWrite_page receives from errch when it does not find the pager
\* running
PageErr(page) ==
    CASE page = "pipe" -> ErrPipe
      [] page = "start" -> ErrPagerStart
      [] page = "exit1" -> ErrExit1
      [] OTHER -> ErrNil

\* cmdWrite_io: no input is no error and runs nothing; an input that cannot
\* be opened is the error; otherwise jq runs and its error is wrapped
cmdWrite_io(w, env) ==
    LET in == Input(w, env)
    IN IF in.err = ErrNoInput THEN Ret(w, ErrNil)
       ELSE IF in.err # ErrNil THEN Ret(w, in.err)
       ELSE IF env.jqok THEN Ret([w EXCEPT !.calls = Append(@, JqCall(w, env))], ErrNil)
       ELSE Ret([w EXCEPT !.calls = Append(@, JqCall(w, env))], ExecError(ErrExit1))

\* cmdWrite_page: what errch holds right after Page is returned at once
cmdWrite_page(w, env) ==
    IF env.page # "running" THEN Ret(w, PageErr(env.page))
    ELSE cmdWrite_io(w, env)

\* cmdWrite_file: os.Create makes the file, or empties the one there is
cmdWrite_file(w, filename, env) ==
    IF ~env.createok THEN Ret(w, ErrCreate)
    ELSE cmdWrite_io([w EXCEPT !.fs.files = @ \cup {filename},
                               !.fs.creates = @ \cup {filename}], env)

\* cmdWrite of part_000: the input is opened first, then the pager is
\* started, and a file name is refused
cmdWrite_stdout(w, f, env) ==
    IF Len(f.args) # 0 THEN Ret(w, ErrFileOutput)
    ELSE IF Input(w, env).err # ErrNil THEN Ret(w, Input(w, env).err)
    ELSE IF env.page # "running" THEN Ret(w, PageErr(env.page))
    ELSE IF env.jqok THEN Ret([w EXCEPT !.calls = Append(@, JqCall(w, env))], ErrNil)
    ELSE Ret([w EXCEPT !.calls = Append(@, JqCall(w, env))], ExecError(ErrExit1))

\* cmdWrite: to the pager, or to the file named by the first argument
cmdWrite(w, args, env, ver) ==
    Only({Checked(f, w,
                  IF ver = "jqsh.go" THEN cmdWrite_stdout(w, f, env)
                  ELSE IF Len(f.args) = 0 THEN cmdWrite_page(w, env)
                  ELSE cmdWrite_file(w, f.args[1], env)) :
            f \in {Parse(FlagNames("write", ver), args)}})

\* cmdQuit: the error of Parse, the help request included, is returned as it
\* is; otherwise ShellExit
cmdQuit(w, args, ver) ==
    Only({IF f.err # ErrNil THEN Ret(w, f.err) ELSE Ret(w, ShellExit) :
            f \in {Parse(FlagNames("quit", ver), args)}})

\* testFilter: run jq on empty input with the current stack, for at most
\* testFilterTimeout
testFilter(w, env) ==
    CASE env.test = "ok" -> ErrNil
      [] env.test = "exit" -> ErrFilter(ErrExit1)
      [] env.test = "timeout" -> ErrTimeout

RECURSIVE PushAll(_, _)
PushAll(s, fsq) ==
    IF fsq = <<>> THEN s
    ELSE PushAll(IF Head(fsq) = "" THEN s ELSE Push(s, Head(fsq)), Tail(fsq))

\* cmdPush after Parse: part_000 only pushes; commands.go tests the filter,
\* pops one entry if the test fails, and writes unless -q
pushFilters(w, f, env, ver) ==
    LET w1 == [w EXCEPT !.sh.Stack = PushAll(@, f.args)]
    IN IF ver = "jqsh.go" THEN Ret(w1, ErrNil)
       ELSE IF testFilter(w1, env) # ErrNil
       THEN Ret([w1 EXCEPT !.sh.Stack = PopN(@, 1).s], testFilter(w1, env))
       ELSE IF ~HasFlag(f, "q") THEN cmdWrite(w1, <<>>, env, ver)
       ELSE Ret(w1, ErrNil)

cmdPush(w, args, env, ver) ==
    Only({Checked(f, w, pushFilters(w, f, env, ver)) :
            f \in {Parse(FlagNames("push", ver), args)}})

\* fmt.Errorf("invalid filter: %v", err)
ErrInvalidFilter(err) == <<"invalid filter">> \o err

\* cmdPeek after Parse: push the filters, write, pop as many entries as
\* arguments given
peekFilters(w, f, env, ver) ==
    LET w1 == [w EXCEPT !.sh.Stack = PushAll(@, f.args)]
        r == cmdWrite(w1, <<>>, env, ver)
        w2 == [r.w EXCEPT !.sh.Stack = PopN(@, Len(f.args)).s]
    IN IF r.err # ErrNil THEN Ret(w2, ErrInvalidFilter(r.err))
       ELSE Ret(w2, ErrNil)

cmdPeek(w, args, env, ver) ==
    Only({Checked(f, w, peekFilters(w, f, env, ver)) :
            f \in {Parse(FlagNames("peek", ver), args)}})

\* cmdPop once the count n (an int) is known: part_000 calls Pop() n times
\* and drops the errors (once the stack is empty the calls change nothing);
\* commands.go calls Pop(n), returns its error, and writes unless -q.  The
\* count takes part up to the depth of the stack only.
popCount(w, f, n, env, ver) ==
    IF Negative(n) THEN Ret(w, ErrNegative)
    ELSE IF ver = "jqsh.go"
    THEN Ret([w EXCEPT !.sh.Stack = PopLoop(@, Capped(n, Len(@)))], ErrNil)
    ELSE IF PopN(w.sh.Stack, Capped(n, Len(w.sh.Stack))).err # ErrNil
    THEN Ret(w, PopN(w.sh.Stack, Capped(n, Len(w.sh.Stack))).err)
    ELSE IF ~HasFlag(f, "q")
    THEN cmdWrite([w EXCEPT !.sh.Stack = PopN(@, Capped(n, Len(@))).s], <<>>,
                  env, ver)
    ELSE Ret([w EXCEPT !.sh.Stack = PopN(@, Capped(n, Len(@))).s], ErrNil)

\* cmdPop after Parse
popArgs(w, f, env, ver) ==
    IF Len(f.args) > 1 THEN Ret(w, ErrTooMany)
    ELSE IF Len(f.args) = 0 THEN popCount(w, f, "1", env, ver)
    ELSE IF ~IsInt(f.args[1]) THEN Ret(w, ErrNotInt)
    ELSE Only({popCount(w, f, n, env, ver) : n \in {Atoi(f.args[1])}})

cmdPop(w, args, env, ver) ==
    Only({Checked(f, w, popArgs(w, f, env, ver)) :
            f \in {Parse(FlagNames("pop", ver), args)}})

\* cmdPopAll
cmdPopAll(w, args, ver) ==
    Only({Checked(f, w, Ret([w EXCEPT !.sh.Stack = PopAll(@)], ErrNil)) :
            f \in {Parse(FlagNames("popall", ver), args)}})

loadFile_assignsBeforeOpen(w, f, env, ver) ==
    IF Len(f.args) # 1 THEN Ret(w, ErrOneFile)
    ELSE LET w1 == [w EXCEPT !.sh.filename = f.args[1], !.sh.istmp = FALSE]
             w2 == IF ver = "commands.go" /\ ~HasFlag(f, "k")
                   THEN [w1 EXCEPT !.sh.Stack = PopAll(@)] ELSE w1
         IN IF f.args[1] \notin w.fs.files THEN Ret(w2, ErrOpen)
            ELSE IF ver = "commands.go" /\ ~HasFlag(f, "q")
            THEN cmdWrite(w2, <<>>, env, ver)
            ELSE Ret(w2, ErrNil)

\* cmdLoad after Parse: the file is opened and closed, then it becomes the
\* input; commands.go then empties the stack unless -k and writes unless -q
loadFile(w, f, env, ver) ==
    IF Len(f.args) # 1 THEN Ret(w, ErrOneFile)
    ELSE IF f.args[1] \notin w.fs.files THEN Ret(w, ErrOpen)
    ELSE LET w1 == [w EXCEPT !.sh.filename = f.args[1], !.sh.istmp = FALSE]
             w2 == IF ver = "commands.go" /\ ~HasFlag(f, "k")
                   THEN [w1 EXCEPT !.sh.Stack = PopAll(@)] ELSE w1
         IN IF ver = "commands.go" /\ ~HasFlag(f, "q")
            THEN cmdWrite(w2, <<>>, env, ver)
            ELSE Ret(w2, ErrNil)

cmdLoad(w, args, env, ver) ==
    Only({Checked(f, w, loadFile(w, f, env, ver)) :
            f \in {Parse(FlagNames("load", ver), args)}})

\* pipeFrom and cmdExec from the point where the output file is chosen, with
\* producer what SetInput is given under -c.  The file is path, deleted with
\* the input if istmp; an empty path asks for a temporary file.  The file
\* named by -o is not written: the command's output goes to os.Stdout.  If
\* the command did not start and -ignore is given, io.Copy reads from a nil
\* reader.
cacheOutput(w, path, istmp, ignore, missing, env) ==
    IF path = "" /\ ~env.createok THEN Ret(w, ErrTmpFile)
    ELSE LET p == IF path = "" THEN TmpNames[w.fs.ntmp + 1] ELSE path
             w1 == IF path = ""
                   THEN [w EXCEPT !.fs.files = @ \cup {p}, !.fs.ntmp = @ + 1]
                   ELSE w
         IN IF missing THEN Ret(w1, ErrMissing)
            ELSE IF StartErr(env) # ErrNil /\ ~ignore
            THEN Ret([w1 EXCEPT !.fs = Remove(@, p)], StartErr(env))
            ELSE IF StartErr(env) # ErrNil THEN Ret(w1, ErrNilDeref)
            ELSE IF ~env.copyok
            THEN Ret([w1 EXCEPT !.fs = Remove(@, p)], ErrCopy)
            ELSE Ret(SetInputFile(w1, p, path = "" \/ istmp), ErrNil)

\* InputPipeOptions as cmdPipe fills it: Filename is set from -o in both of
\* its assignments, so -O alone leaves it empty
InputPipeOptions(f) ==
    [Quiet |-> HasFlag(f, "q"), KeepStack |-> HasFlag(f, "k"),
     Ignore |-> HasFlag(f, "ignore"), NoCache |-> HasFlag(f, "c"),
     Filename |-> f.val["o"], Delete |-> f.val["o"] # ""]

\* pipeFrom: make the output of a shell script the input, cached in a file
\* unless NoCache; then empty the stack unless KeepStack, write unless Quiet
pipeFrom(w, script, opt, env, ver) ==
    IF opt.NoCache THEN Ret(SetInput(w, script), ErrNil)
    ELSE Only({IF r.err # ErrNil THEN r
               ELSE IF ~opt.Quiet
               THEN cmdWrite([r.w EXCEPT !.sh.Stack =
                                 IF opt.KeepStack THEN @ ELSE PopAll(@)],
                             <<>>, env, ver)
               ELSE Ret([r.w EXCEPT !.sh.Stack =
                            IF opt.KeepStack THEN @ ELSE PopAll(@)], ErrNil) :
                 r \in {cacheOutput(w, opt.Filename, opt.Delete, opt.Ignore,
                                    FALSE, env)}})

\* fmt.Errorf("creating pipe: %v", err)
ErrCreatingPipe(err) == <<"creating pipe">> \o err

\* pipeTo, and cmdPipeShell after Parse: run jq with its output going to the
\* shell script, then wait for the script
pipeTo(w, script, env) ==
    IF ~env.pipeok THEN Ret(w, ErrCreatingPipe(ErrPipe))
    ELSE IF ~env.startok THEN Ret(w, ExecError(ErrStart))
    ELSE Only({IF r.err # ErrNil THEN r
               ELSE IF ~env.waitok THEN Ret(r.w, ExecError(ErrExit1))
               ELSE r :
                 r \in {cmdWrite_io(w, env)}})

\* cmdPipe after Parse
pipeScript(w, f, env, ver) ==
    IF Len(f.args) = 0 THEN Ret(w, ErrMissing)
    ELSE IF Len(f.args) > 1 THEN Ret(w, ErrOneCommand)
    ELSE IF HasFlag(f, "in") /\ HasFlag(f, "out") THEN Ret(w, ErrInAndOut)
    ELSE IF f.val["o"] # "" /\ f.val["O"] # "" THEN Ret(w, ErrBothFiles)
    ELSE IF HasFlag(f, "out") THEN pipeTo(w, f.args[1], env)
    ELSE pipeFrom(w, f.args[1], InputPipeOptions(f), env, ver)

cmdPipe(w, args, env, ver) ==
    Only({Checked(f, w, pipeScript(w, f, env, ver)) :
            f \in {Parse(FlagNames("pipe", ver), args)}})

\* cmdExec after Parse, the input-producing command of the sources that have
\* no pipe: with -c the producer is made from args[0] before any look at
\* args; otherwise the temporary file is created first, then a missing
\* command is reported, then the command is started and its output copied
execCommand(w, f, env) ==
    IF f.val["o"] # "" /\ f.val["O"] # "" THEN Ret(w, ErrBothFiles)
    ELSE IF HasFlag(f, "c")
    THEN IF Len(f.args) = 0 THEN Ret(w, ErrPanic)
         ELSE Ret(SetInput(w, Join(f.args, " ")), ErrNil)
    ELSE cacheOutput(w, IF f.val["o"] # "" THEN f.val["o"] ELSE f.val["O"],
                     f.val["o"] # "", HasFlag(f, "ignore"), Len(f.args) = 0,
                     env)

cmdExec(w, args, env, ver) ==
    Only({Checked(f, w, execCommand(w, f, env)) :
            f \in {Parse(FlagNames("exec", ver), args)}})

\* cmdPipeShell: the flag is declared under the name "-color", which no word
\* can give
cmdPipeShell(w, args, env, ver) ==
    Only({Checked(f, w, IF Len(f.args) = 0 THEN Ret(w, ErrMissing)
                        ELSE pipeTo(w, f.args[1], env)) :
            f \in {Parse(FlagNames("sh", ver), args)}})

\* cmdRaw after Parse: page the input as it is
rawInput(w, f, env) ==
    IF Len(f.args) # 0 THEN Ret(w, ErrFileOutput)
    ELSE IF Input(w, env).err # ErrNil THEN Ret(w, Input(w, env).err)
    ELSE IF env.page # "running" THEN Ret(w, PageErr(env.page))
    ELSE IF ~env.copyok THEN Ret(w, ErrCopyingFile)
    ELSE Ret(w, ErrNil)

cmdRaw(w, args, env, ver) ==
    Only({Checked(f, w, rawInput(w, f, env)) :
            f \in {Parse(FlagNames("raw", ver), args)}})

\* cmdFilter after Parse: print the filter; -jq with a -quote of one
\* character has no escape for it
printFilter(w, f) ==
    IF HasFlag(f, "jq") /\ Len(f.val["quote"]) = 1 THEN Ret(w, ErrNoEscape)
    ELSE Ret(w, ErrNil)

\* cmdFilter: part_000 returns the help request as an error
cmdFilter(w, args, ver) ==
    Only({IF ver = "jqsh.go" /\ f.err # ErrNil THEN Ret(w, f.err)
          ELSE Checked(f, w, printFilter(w, f)) :
            f \in {Parse(FlagNames("filter", ver), args)}})

\* cmdScript: the result of Parse is dropped, the script is printed
cmdScript(w, args, ver) == Ret(w, ErrNil)

\* ------------------------------------------------------------ dispatch
\* the names NewJQShell registers in commands.go
Registered == {"push", "peek", "pop", "popall", "filter", "script", "load",
               "pipe", "write", "raw", "quit"}

Handler(w, name, args, env, ver) ==
    CASE name = "push" -> cmdPush(w, args, env, ver)
      [] name = "peek" -> cmdPeek(w, args, env, ver)
      [] name = "pop" -> cmdPop(w, args, env, ver)
      [] name = "popall" -> cmdPopAll(w, args, ver)
      [] name = "filter" -> cmdFilter(w, args, ver)
      [] name = "script" -> cmdScript(w, args, ver)
      [] name = "load" -> cmdLoad(w, args, env, ver)
      [] name = "pipe" -> cmdPipe(w, args, env, ver)
      [] name = "exec" -> cmdExec(w, args, env, ver)
      [] name = "sh" -> cmdPipeShell(w, args, env, ver)
      [] name = "write" -> cmdWrite(w, args, env, ver)
      [] name = "raw" -> cmdRaw(w, args, env, ver)
      [] name = "quit" -> cmdQuit(w, args, ver)

\* the names in lib.cmds: the ones NewJQShell registers in jqsh.go have exec
\* and sh and no peek, popall or pipe
RegisteredIn(ver) ==
    IF ver = "jqsh.go"
    THEN {"push", "pop", "filter", "script", "load", "exec", "sh", "write",
          "raw", "quit"}
    ELSE Registered

\* the result of Lib.Execute: the world, the error returned, the handler
\* that was invoked ("" if none) with the error it returned, and the cmd
\* field (name and arguments) of the ExecError returned
LibRet(w, err, invoked, cause, cmd) ==
    [w |-> w, err |-> err, invoked |-> invoked, cause |-> cause, cmd |-> cmd]

\* Lib.exec on the result r of the handler: an error is wrapped in an
\* ExecError that carries the name and the arguments
Unwrapped(r, name) == LibRet(r.w, r.err, name, r.err, <<>>)

Wrapped(r, name, args) ==
    IF r.err # ErrNil
    THEN LibRet(r.w, ExecError(r.err), name, r.err, <<name>> \o args)
    ELSE LibRet(r.w, ErrNil, name, ErrNil, <<>>)

\* Lib.Execute / Lib.exec: help is built in (its error is dropped), an
\* unregistered name is an unknown command, a handler's error is wrapped
LibExecute_unwrapped(w, name, args, env, ver) ==
    IF name = "help" THEN LibRet(w, ErrNil, "help", ErrNil, <<>>)
    ELSE IF name \notin RegisteredIn(ver)
    THEN LibRet(w, ErrUnknown, "", ErrNil, <<>>)
    ELSE Only({Unwrapped(r, name) : r \in {Handler(w, name, args, env, ver)}})

LibExecute(w, name, args, env, ver) ==
    IF name = "help" THEN LibRet(w, ErrNil, "help", ErrNil, <<>>)
    ELSE IF name \notin RegisteredIn(ver)
    THEN LibRet(w, ErrUnknown, "", ErrNil, <<>>)
    ELSE Only({Wrapped(r, name, args) : r \in {Handler(w, name, args, env, ver)}})

\* what execute reports of Lib.Execute when it has not called it
NoLibRet == [invoked |-> "", cause |-> <<>>, cmd |-> <<>>]

\* what execute returns when Lib.Execute returned r
Ran(r) ==
    [w |-> r.w, err |-> r.err, ran |-> TRUE,
     disp |-> [invoked |-> r.invoked, cause |-> r.cause, cmd |-> r.cmd]]

\* JQShell.execute; ran tells whether the command reached Lib.Execute, and
\* disp what Lib.Execute did
execute_skipsBare(w, cmd, err, env, ver) ==
    IF isShellExit(err) THEN [w |-> w, err |-> err, ran |-> FALSE, disp |-> NoLibRet]
    ELSE IF err = ErrInvalid THEN [w |-> w, err |-> ErrNil, ran |-> FALSE, disp |-> NoLibRet]
    ELSE IF err # ErrNil THEN [w |-> w, err |-> err, ran |-> FALSE, disp |-> NoLibRet]
    ELSE IF Len(cmd) > 1
    THEN Only({Ran(r) : r \in {LibExecute(w, Head(cmd), Tail(cmd), env, ver)}})
    ELSE [w |-> w, err |-> ErrNil, ran |-> FALSE, disp |-> NoLibRet]

execute(w, cmd, err, env, ver) ==
    IF isShellExit(err) THEN [w |-> w, err |-> err, ran |-> FALSE, disp |-> NoLibRet]
    ELSE IF err = ErrInvalid THEN [w |-> w, err |-> ErrNil, ran |-> FALSE, disp |-> NoLibRet]
    ELSE IF err # ErrNil THEN [w |-> w, err |-> err, ran |-> FALSE, disp |-> NoLibRet]
    ELSE IF Len(cmd) > 0
    THEN Only({Ran(r) : r \in {LibExecute(w, Head(cmd), Tail(cmd), env, ver)}})
    ELSE [w |-> w, err |-> ErrNil, ran |-> FALSE, disp |-> NoLibRet]

\* ------------------------------------------------------------ session loop
\* the name under which NewJQShell registers the command that makes the
\* output of a shell command the input
InputCmd(ver) == IF ver = "jqsh.go" THEN "exec" ELSE "pipe"

\* the command lines a session may read: the ones both generations of the
\* sources know, and the ones only one of them registers
Cmds(ver) ==
    { <<"quit">>, <<"quit", "-x">>, <<"load", "data.json">>, <<"load">>,
      <<"load", "missing.json">>, <<InputCmd(ver), "cat">>,
      <<InputCmd(ver), "-c", "cat">>, <<InputCmd(ver)>>,
      <<"push", ".a">>, <<"push", ".a", ".b">>, <<"push">>,
      <<"push", "-q", ".a">>, <<"pop">>, <<"pop", "2">>,
      <<"write">>, <<"write", "out.json">>, <<"bogus">>, <<"help">> }
    \cup IF ver = "jqsh.go" THEN { <<"sh", "cat">>, <<"raw">> }
         ELSE { <<"peek", ".a">>, <<"peek", "">>, <<"popall">>, <<"raw">>,
                <<"pipe", "-out", "cat">>, <<"pipe", "cat", "x">> }

\* what the ReadCommand of SimpleShellReader and of InitShellReader returns:
\* a command (possibly empty, possibly the last one) with a nil error, nil
\* with io.EOF on exhausted input, or nil with the error of a failed read.
\* Neither reader constructs an InvalidCommandError.
ReadResults(ver) ==
    {[cmd |-> c, eof |-> e, err |-> ErrNil] :
        c \in Cmds(ver) \cup {<<>>}, e \in BOOLEAN}
    \cup {[cmd |-> <<>>, eof |-> TRUE, err |-> ErrEOF]}
    \cup {[cmd |-> <<>>, eof |-> FALSE, err |-> ErrRead]}

NoResult == [cmd |-> <<>>, eof |-> FALSE, err |-> ErrNil]

\* calls lists the jq invocations that the writes of the command being
\* handled have made: the expression and the standard input of each
World == [sh |-> sh, fs |-> fs, calls |-> <<>>]

\* ready has capacity 1 (make(chan struct{}, 1))
ReadyCap == 1

Init0 ==
    /\ sh = [Stack |-> <<>>, filename |-> "", istmp |-> FALSE, inputfn |-> "",
             err |-> ErrNil]
    /\ fs = [files |-> UserFiles, removes |-> [p \in TmpSet |-> 0],
             creates |-> {}, ntmp |-> 0]
    /\ stop = FALSE
    /\ stopCloses = 0
    /\ ready = 1
    /\ readers = {}
    /\ execs = {}
    /\ loopPc = "select"
    /\ waitPc = "waiting"
    /\ waitErr = ErrNil
    /\ ngo = 0
    /\ nread = 0
    /\ readIds = <<>>
    /\ execIds = <<>>
    /\ outstanding = {}
    /\ finalSeen = FALSE
    /\ fatalSeen = FALSE
    /\ quitSeen = FALSE
    /\ lastErr = ErrNil
    /\ logs = {}

\* the state of the Execute variables while no call is modelled
XIdle ==
    /\ xpc = "idle"
    /\ xstopKind = "nil"
    /\ xstop = FALSE
    /\ proc = "none"
    /\ status = ErrNil
    /\ waiter = "none"
    /\ done = <<>>
    /\ doneClosed = FALSE
    /\ outn = 0
    /\ errn = 0
    /\ xres = [nout |-> 0, nerr |-> 0, err |-> ErrNil]
    /\ xpath = "none"
    /\ killCalls = 0
    /\ exitedFirst = FALSE
    /\ stopAtReturn = FALSE
    /\ launchOK = FALSE

\* the state of the stack and reader variables while neither is exercised
NoOp == [op |-> "none", arg |-> <<>>, n |-> 0, err |-> ErrNil]
NoRead == [cmd |-> <<>>, eof |-> FALSE, err |-> ErrNil]

SIdle ==
    /\ pipe = <<>>
    /\ sop = NoOp
    /\ nops = 0
    /\ npushed = 0
    /\ popsum = 0

RIdle ==
    /\ rin = <<>>
    /\ rline = <<>>
    /\ rout = NoRead
    /\ rcalls = 0

\* no write command or filter test is being followed on its own
NoWrite == [kind |-> "none", pc |-> "idle", input |-> "ok", file |-> "",
            sink |-> "none",
            checked |-> FALSE, watcher |-> "none", pageerr |-> <<>>,
            pageerrClosed |-> FALSE, ioerr |-> <<>>, res |-> <<>>,
            logged |-> {}]
NoPager == [proc |-> "none", err |-> <<>>, errch |-> <<>>, closed |-> FALSE]
WIdle == wr = NoWrite /\ pg = NoPager

\* no session, registry or lexer is being followed on its own
NoSession == [cmds |-> <<>>, ok |-> TRUE, page |-> "running", calls |-> <<>>,
              err |-> <<>>]
NoLib == [cmds |-> {}, topics |-> {}, panic |-> "",
          last |-> [op |-> "none", name |-> ""]]
NoLex == [input |-> <<>>, pos |-> 0, start |-> 0, width |-> 0, fn |-> "none",
          q |-> 0, items |-> <<>>, steps |-> 0]
OIdle == qs = NoSession /\ lib = NoLib /\ lx = NoLex

Init ==
    /\ version \in {"commands.go", "jqsh.go"}
    /\ Init0
    /\ XIdle
    /\ SIdle
    /\ RIdle
    /\ WIdle
    /\ OIdle

\* case <-stop: remove any temporary file, wg.Done, return
LoopStop ==
    /\ loopPc = "select"
    /\ stop
    /\ fs' = IF sh.filename # "" /\ sh.istmp THEN Remove(fs, sh.filename) ELSE fs
    /\ loopPc' = "returned"
    /\ UNCHANGED <<version, sh, stop, stopCloses, ready, readers, execs, waitPc,
                   waitErr, ngo, nread, readIds, execIds, outstanding,
                   finalSeen, fatalSeen, quitSeen, lastErr>>
    /\ UNCHANGED logs
    /\ UNCHANGED xVars
    /\ UNCHANGED pVars

\* case <-ready: start a goroutine that calls ReadCommand
LoopReady ==
    /\ loopPc = "select"
    /\ ready > 0
    /\ ready' = ready - 1
    /\ ngo' = ngo + 1
    /\ readers' = readers \cup {[id |-> ngo + 1, pc |-> "read", rid |-> 0,
                                 res |-> NoResult]}
    /\ UNCHANGED <<version, sh, fs, stop, stopCloses, execs, loopPc, waitPc,
                   waitErr, nread, readIds, execIds, outstanding, finalSeen,
                   fatalSeen, quitSeen, lastErr>>
    /\ UNCHANGED logs
    /\ UNCHANGED xVars
    /\ UNCHANGED pVars

\* the reader goroutine: ReadCommand returns, the result waits on cmdch
ReadCommand ==
    \E r \in readers : \E res \in ReadResults(version) :
        /\ r.pc = "read"
        /\ nread < MaxReads
        /\ nread' = nread + 1
        /\ readers' = (readers \ {r}) \cup
                {[r EXCEPT !.pc = "send", !.rid = nread + 1, !.res = res]}
        /\ readIds' = IF res.cmd # <<>> THEN Append(readIds, nread + 1)
                      ELSE readIds
        /\ outstanding' = IF res.cmd # <<>>
                          THEN outstanding \cup {[id |-> nread + 1, cmd |-> res.cmd]}
                          ELSE outstanding
        /\ finalSeen' = (finalSeen \/ res.eof)
        /\ lastErr' = ErrNil
        /\ logs' = {}
        /\ UNCHANGED <<version, sh, fs, stop, stopCloses, ready, execs, loopPc,
                       waitPc, waitErr, ngo, execIds, fatalSeen, quitSeen>>
        /\ UNCHANGED xVars
        /\ UNCHANGED pVars

\* the goroutine the loop starts for a received result: it executes it
SpawnExec_dropsFinal(es, r, n) ==
    es \cup {[id |-> n, pc |-> "exec", rid |-> r.rid, cmd |-> r.res.cmd,
              eof |-> FALSE, err |-> r.res.err, res |-> ErrNil,
              pre |-> sh.Stack, disp |-> NoLibRet]}

SpawnExec(es, r, n) ==
    es \cup {[id |-> n, pc |-> "exec", rid |-> r.rid, cmd |-> r.res.cmd,
              eof |-> r.res.eof, err |-> r.res.err, res |-> ErrNil,
              pre |-> sh.Stack, disp |-> NoLibRet]}

\* case cmd := <-cmdch: an InvalidCommandError is logged and answered with
\* the ready token (the loop blocks when ready is full); every other result
\* is handed to a new executor goroutine
LoopDispatch ==
    \E r \in readers :
        /\ loopPc = "select"
        /\ r.pc = "send"
        /\ readers' = readers \ {r}
        /\ IF r.res.err = ErrInvalid
           THEN /\ logs' = {[rid |-> r.rid, what |-> "invalid",
                             err |-> ErrInvalid]}
                /\ IF ready < ReadyCap
                   THEN ready' = ready + 1 /\ loopPc' = loopPc
                   ELSE ready' = ready /\ loopPc' = "blocked"
                /\ UNCHANGED <<ngo, execs>>
           ELSE /\ ngo' = ngo + 1
                /\ execs' = SpawnExec(execs, r, ngo + 1)
                /\ UNCHANGED <<ready, loopPc, logs>>
        /\ UNCHANGED <<version, sh, fs, stop, stopCloses, waitPc, waitErr,
                       nread, readIds, execIds, outstanding, finalSeen,
                       fatalSeen, quitSeen, lastErr>>
        /\ UNCHANGED xVars
        /\ UNCHANGED pVars

\* the quit outcome: ShellExit, directly or nested inside an ExecError
QuitOutcome(err) == err = ShellExit \/ err = ExecError(ShellExit)

\* the executor goroutine: err = jq.execute(cmd.cmd, err)
ExecRun ==
    \E e \in execs : \E env \in Envs :
        /\ e.pc = "exec"
        /\ \E r \in {execute(World, e.cmd,
                               IF e.err = ErrEOF THEN ErrNil ELSE e.err,
                               env, version)} :
           /\ sh' = r.w.sh
           /\ fs' = r.w.fs
           /\ execs' = (execs \ {e}) \cup {[e EXCEPT !.pc = "post", !.res = r.err,
                                                      !.disp = r.disp]}
           /\ execIds' = IF r.ran THEN Append(execIds, e.rid) ELSE execIds
           /\ fatalSeen' = (fatalSeen \/ e.err = ErrRead)
           /\ quitSeen' = (quitSeen \/ QuitOutcome(r.err))
           /\ lastErr' = r.err
           /\ UNCHANGED <<version, stop, stopCloses, ready, readers, loopPc,
                          waitPc, waitErr, ngo, nread, readIds, outstanding,
                          finalSeen>>
           /\ UNCHANGED logs
           /\ UNCHANGED xVars
           /\ UNCHANGED pVars

\* the executor stops the loop: isShellExit(err) or cmd.eof
StopsLoop_anyError(e) == e.res # ErrNil \/ e.eof

StopsLoop(e) == isShellExit(e.res) \/ e.eof

ExecStop ==
    \E e \in execs :
        /\ e.pc = "post"
        /\ StopsLoop(e)
        /\ stop' = TRUE
        /\ stopCloses' = stopCloses + 1
        /\ execs' = execs \ {e}
        /\ outstanding' = outstanding \ {[id |-> e.rid, cmd |-> e.cmd]}
        /\ UNCHANGED <<version, sh, fs, ready, readers, loopPc, waitPc,
                       waitErr, ngo, nread, readIds, execIds, finalSeen,
                       fatalSeen, quitSeen, lastErr>>
        /\ logs' = {}
        /\ UNCHANGED xVars
        /\ UNCHANGED pVars

\* the commands after which the loop of jqsh.go does not write
NoAutoWrite == {"write", "raw", "filter", "script", "help", "sh"}

\* jqsh.go: after the write that followed the command has returned r, the
\* pop that reverts a push whose write failed
Revert(r, cmd, env, ver) ==
    LET npush == IF Len(cmd) - 1 = 0 THEN 1 ELSE Len(cmd) - 1
    IN IF r.err # ErrNil /\ Head(cmd) = "push"
       THEN execute(r.w, <<"pop", Sprint(npush)>>, ErrNil, env, ver).w
       ELSE r.w

\* jqsh.go: the write that follows a successful command, and the pop that
\* reverts a push whose write failed
FollowUp(w, cmd, err, env, ver) ==
    IF ver # "jqsh.go" \/ err # ErrNil \/ Len(cmd) = 0 THEN w
    ELSE IF Head(cmd) \in NoAutoWrite THEN w
    ELSE Only({Revert(r, cmd, env, ver) :
                 r \in {execute(w, <<"write">>, ErrNil, env, ver)}})

\* what the executor logs after the follow-up write has returned r
RevertLogs(r, rid, cmd, env, ver) ==
    LET npush == IF Len(cmd) - 1 = 0 THEN 1 ELSE Len(cmd) - 1
        p == execute(r.w, <<"pop", Sprint(npush)>>, ErrNil, env, ver)
    IN IF r.err = ErrNil THEN {}
       ELSE {[rid |-> rid, what |-> "write", err |-> r.err]}
            \cup (IF Head(cmd) # "push" THEN {}
                  ELSE {[rid |-> rid, what |-> "reverting push operation",
                         err |-> ErrNil]}
                       \cup (IF p.err = ErrNil THEN {}
                             ELSE {[rid |-> rid, what |-> "revert",
                                    err |-> p.err]}))

\* what the executor logs for the command rid before it sends ready: the
\* command's error, or "empty command", or the errors of the follow-up write
\* and of the reverting pop
FollowUpLogs(w, rid, cmd, err, env, ver) ==
    IF err # ErrNil THEN {[rid |-> rid, what |-> "command", err |-> err]}
    ELSE IF Len(cmd) = 0
    THEN {[rid |-> rid, what |-> "empty command", err |-> ErrNil]}
    ELSE IF ver # "jqsh.go" \/ Head(cmd) \in NoAutoWrite THEN {}
    ELSE Only({RevertLogs(r, rid, cmd, env, ver) :
                 r \in {execute(w, <<"write">>, ErrNil, env, ver)}})

\* the executor logs the error, does the follow-up, and sends ready
ExecContinue_readyFirst ==
    \E e \in execs :
        /\ e.pc \in {"exec", "post"}
        /\ ready < ReadyCap
        /\ ~(\E r \in readers : TRUE)
        /\ ready' = ready + 1
        /\ UNCHANGED <<version, sh, fs, execs, outstanding, stop, stopCloses,
                       loopPc, readers, waitPc, waitErr, ngo, nread, readIds,
                       execIds, finalSeen, fatalSeen, quitSeen, lastErr>>
        /\ UNCHANGED logs
        /\ UNCHANGED xVars
        /\ UNCHANGED pVars

ExecContinue ==
    \E e \in execs : \E env \in Envs :
        /\ e.pc = "post"
        /\ ~StopsLoop(e)
        /\ ready < ReadyCap
        /\ \E w \in {FollowUp(World, e.cmd, e.res, env, version)} :
              sh' = w.sh /\ fs' = w.fs
        /\ logs' = FollowUpLogs(World, e.rid, e.cmd, e.res, env, version)
        /\ ready' = ready + 1
        /\ execs' = execs \ {e}
        /\ outstanding' = outstanding \ {[id |-> e.rid, cmd |-> e.cmd]}
        /\ UNCHANGED <<version, stop, stopCloses, loopPc, readers, waitPc,
                       waitErr, ngo, nread, readIds, execIds, finalSeen,
                       fatalSeen, quitSeen, lastErr>>
        /\ UNCHANGED xVars
        /\ UNCHANGED pVars

\* JQShell.Wait: wg.Wait, then return jq.err
Wait ==
    /\ waitPc = "waiting"
    /\ loopPc = "returned"
    /\ waitPc' = "returned"
    /\ waitErr' = sh.err
    /\ UNCHANGED <<version, sh, fs, stop, stopCloses, ready, readers, execs,
                   loopPc, ngo, nread, readIds, execIds, outstanding,
                   finalSeen, fatalSeen, quitSeen, lastErr>>
    /\ UNCHANGED logs
    /\ UNCHANGED xVars
    /\ UNCHANGED pVars

Next ==
    \/ LoopStop
    \/ LoopReady
    \/ ReadCommand
    \/ LoopDispatch
    \/ ExecRun
    \/ ExecStop
    \/ ExecContinue
    \/ Wait

Spec == Init /\ [][Next]_vars

\* the goroutines of the program are scheduled fairly
FairSpec ==
    /\ Spec
    /\ WF_vars(LoopStop) /\ WF_vars(LoopReady)
    /\ WF_vars(LoopDispatch) /\ WF_vars(ExecRun) /\ WF_vars(ExecStop)
    /\ WF_vars(ExecContinue) /\ WF_vars(Wait)

\* ------------------------------------------------------------ registry
\* A Lib on its own: Library() makes the maps cmds and topics empty, and
\* Register / RegisterHelp fill them.  A map is the set of its entries; panic
\* is the message of the panic that ended the program, last the call made.
RegNames == {"push", "pop", "syntax", "help"}
RegHandlers == {"cmdPush", "cmdPop"}
RegDocs == {"docs"}

Has(m, name) == \E e \in m : e.name = name
Put(m, name, v) == {e \in m : e.name # name} \cup {[name |-> name, val |-> v]}

\* part_000: _, ok := lib.cmds[name]
taken_cmdsOnly(l, name) ==
    IF Has(l.cmds, name) THEN "command already registered" ELSE ""

\* Lib.taken: the error for a name that is a command or a help topic
taken(l, name) ==
    IF Has(l.cmds, name) THEN "command already registered"
    ELSE IF Has(l.topics, name) THEN "help topic already registered"
    ELSE ""

\* Lib.Register; part_000 looks only at cmds and has no help topics
Register(l, name, cmd, ver) ==
    LET err == IF ver = "commands.go" THEN taken(l, name)
               ELSE taken_cmdsOnly(l, name)
        l1 == [l EXCEPT !.last = [op |-> "Register", name |-> name]]
    IN IF err # "" THEN [l1 EXCEPT !.panic = err]
       ELSE [l1 EXCEPT !.cmds = Put(@, name, cmd)]

\* Lib.RegisterHelp
RegisterHelp(l, name, docs) ==
    LET err == taken(l, name)
        l1 == [l EXCEPT !.last = [op |-> "RegisterHelp", name |-> name]]
    IN IF err # "" THEN [l1 EXCEPT !.panic = err]
       ELSE [l1 EXCEPT !.topics = Put(@, name, docs)]

InitL ==
    /\ version \in {"commands.go", "jqsh.go"}
    /\ Init0
    /\ XIdle
    /\ SIdle
    /\ RIdle
    /\ WIdle
    /\ OIdle

\* a call of Register; no call follows a panic
LRegister ==
    /\ lib.panic = ""
    /\ \E name \in RegNames, cmd \in RegHandlers :
          lib' = Register(lib, name, cmd, version)
    /\ UNCHANGED <<loopVars, xVars, sVars, rVars, wVars, qs, lx>>

LRegisterHelp ==
    /\ lib.panic = ""
    /\ version = "commands.go"
    /\ \E name \in RegNames, docs \in RegDocs :
          lib' = RegisterHelp(lib, name, docs)
    /\ UNCHANGED <<loopVars, xVars, sVars, rVars, wVars, qs, lx>>

NextL ==
    \/ LRegister
    \/ LRegisterHelp

SpecL == InitL /\ [][NextL]_vars

\* ------------------------------------------------------------ session
\* The commands of a session run one after the other, as the loop runs them:
\* execute, then (jqsh.go) the follow-up write.  qs keeps the commands run so
\* far, whether jq and the shell have succeeded every time so far, and what
\* the pager did, the jq invocations and the error of the last command.
MaxCmds == 5

QCmds(ver) ==
    { <<"load", "data.json">>, <<"push", ".items[]">>, <<"push", ".name">>,
      <<"pop", "1">>, <<"write">>,
      <<InputCmd(ver), "cat">>, <<InputCmd(ver), "-c", "cat">> }

InitQ ==
    /\ version \in {"commands.go", "jqsh.go"}
    /\ Init0
    /\ XIdle
    /\ SIdle
    /\ RIdle
    /\ WIdle
    /\ lib = NoLib
    /\ lx = NoLex
    /\ qs = [cmds |-> <<>>, ok |-> TRUE, page |-> "running", calls |-> <<>>,
             err |-> ErrNil]

\* one command of the session; the session is followed up to the first
\* command during which jq, the pager or the shell failed
QRun ==
    /\ Len(qs.cmds) < MaxCmds
    /\ qs.ok
    /\ \E cmd \in QCmds(version), env \in Envs :
          \E r \in {execute(World, cmd, ErrNil, env, version)} :
          \E w \in {FollowUp(r.w, cmd, r.err, env, version)} :
             /\ sh' = w.sh
             /\ fs' = w.fs
             /\ lastErr' = r.err
             /\ qs' = [cmds |-> Append(qs.cmds, cmd),
                       ok |-> (qs.ok /\ env = EnvOK),
                       page |-> env.page,
                       calls |-> w.calls,
                       err |-> r.err]
    /\ UNCHANGED <<version, stop, stopCloses, ready, readers, execs, loopPc,
                   waitPc, waitErr, ngo, nread, readIds, execIds, outstanding,
                   finalSeen, fatalSeen, quitSeen, logs>>
    /\ UNCHANGED <<xVars, sVars, rVars, wVars, lib, lx>>

NextQ == QRun

SpecQ == InitQ /\ [][NextQ]_vars

\* ------------------------------------------------------------ Execute
\* One call Execute(outw, errw, in, stop, jq, color, s) of jq.go.  The caller
\* passes either a nil stop channel (cmdWrite_file) or a channel that another
\* goroutine closes (cmdWrite_page when the pager exits, testFilter on its
\* timeout).
ErrKilled == <<"signal: killed">>

InitX ==
    /\ version = "commands.go"
    /\ Init0
    /\ xpc = "call"
    /\ xstopKind \in {"nil", "chan"}
    /\ launchOK \in BOOLEAN
    /\ xstop = FALSE
    /\ proc = "none"
    /\ status = ErrNil
    /\ waiter = "none"
    /\ done = <<>>
    /\ doneClosed = FALSE
    /\ outn = 0
    /\ errn = 0
    /\ xres = [nout |-> 0, nerr |-> 0, err |-> ErrNil]
    /\ xpath = "none"
    /\ killCalls = 0
    /\ exitedFirst = FALSE
    /\ stopAtReturn = FALSE
    /\ SIdle
    /\ RIdle
    /\ WIdle
    /\ OIdle

\* err := cmd.Start(); on failure return 0, 0, err; otherwise start the
\* goroutine that waits for the process and enter the select
XStart_reportsExit ==
    /\ xpc = "call"
    /\ IF launchOK
       THEN /\ proc' = "running"
            /\ waiter' = "wait"
            /\ xpc' = "select"
            /\ UNCHANGED <<xres, xpath, stopAtReturn>>
       ELSE /\ xpc' = "returned"
            /\ xres' = [nout |-> 0, nerr |-> 0, err |-> ErrExit1]
            /\ xpath' = "launch"
            /\ stopAtReturn' = xstop
            /\ UNCHANGED <<proc, waiter>>
    /\ UNCHANGED <<xstopKind, xstop, status, done, doneClosed, outn, errn,
                   killCalls, exitedFirst, launchOK>>
    /\ UNCHANGED loopVars
    /\ UNCHANGED pVars

XStart ==
    /\ xpc = "call"
    /\ IF launchOK
       THEN /\ proc' = "running"
            /\ waiter' = "wait"
            /\ xpc' = "select"
            /\ UNCHANGED <<xres, xpath, stopAtReturn>>
       ELSE /\ xpc' = "returned"
            /\ xres' = [nout |-> 0, nerr |-> 0, err |-> ErrStart]
            /\ xpath' = "launch"
            /\ stopAtReturn' = xstop
            /\ UNCHANGED <<proc, waiter>>
    /\ UNCHANGED <<xstopKind, xstop, status, done, doneClosed, outn, errn,
                   killCalls, exitedFirst, launchOK>>
    /\ UNCHANGED loopVars
    /\ UNCHANGED pVars

\* the caller's cancel signal: close(stop)
CancelFire ==
    /\ xstopKind = "chan"
    /\ ~xstop
    /\ xpc # "idle"
    /\ xstop' = TRUE
    /\ UNCHANGED <<xpc, xstopKind, proc, status, waiter, done, doneClosed,
                   outn, errn, xres, xpath, killCalls, exitedFirst,
                   stopAtReturn, launchOK>>
    /\ UNCHANGED loopVars
    /\ UNCHANGED pVars

\* writeCounter.Write: a copy goroutine of exec.Cmd hands one byte of the
\* process's stdout or stderr to the sink, which accepts it, and adds it to
\* the counter.  The goroutines copy until the pipes are drained, also after
\* the process has exited or was killed; cmd.Wait returns after them.
ProcWrite ==
    /\ proc \in {"running", "exited", "killed"}
    /\ outn + errn < MaxBytes
    /\ \/ outn' = outn + 1 /\ errn' = errn
       \/ errn' = errn + 1 /\ outn' = outn
    /\ UNCHANGED <<xpc, xstopKind, xstop, proc, status, waiter, done,
                   doneClosed, xres, xpath, killCalls, exitedFirst,
                   stopAtReturn, launchOK>>
    /\ UNCHANGED loopVars
    /\ UNCHANGED pVars

\* the process exits by itself, with status 0 or not
ProcExit ==
    /\ proc = "running"
    /\ \E st \in {ErrNil, ErrExit1} : status' = st
    /\ proc' = "exited"
    /\ exitedFirst' = ~xstop
    /\ UNCHANGED <<xpc, xstopKind, xstop, waiter, done, doneClosed, outn,
                   errn, xres, xpath, killCalls, stopAtReturn, launchOK>>
    /\ UNCHANGED loopVars
    /\ UNCHANGED pVars

\* go func() { done <- cmd.Wait(); close(done) }()
WaiterSend_onlyErrors ==
    /\ waiter = "wait"
    /\ proc \in {"exited", "killed"}
    /\ done' = IF status # ErrNil THEN Append(done, status) ELSE done
    /\ waiter' = IF status # ErrNil THEN "sent" ELSE "gone"
    /\ proc' = "reaped"
    /\ UNCHANGED <<xpc, xstopKind, xstop, status, doneClosed, outn, errn,
                   xres, xpath, killCalls, exitedFirst, stopAtReturn, launchOK>>
    /\ UNCHANGED loopVars
    /\ UNCHANGED pVars

WaiterSend ==
    /\ waiter = "wait"
    /\ proc \in {"exited", "killed"}
    /\ done' = Append(done, status)
    /\ waiter' = "sent"
    /\ proc' = "reaped"
    /\ UNCHANGED <<xpc, xstopKind, xstop, status, doneClosed, outn, errn,
                   xres, xpath, killCalls, exitedFirst, stopAtReturn, launchOK>>
    /\ UNCHANGED loopVars
    /\ UNCHANGED pVars

WaiterClose ==
    /\ waiter = "sent"
    /\ doneClosed' = TRUE
    /\ waiter' = "closed"
    /\ UNCHANGED <<xpc, xstopKind, xstop, proc, status, done, outn, errn,
                   xres, xpath, killCalls, exitedFirst, stopAtReturn, launchOK>>
    /\ UNCHANGED loopVars
    /\ UNCHANGED pVars

\* the error Execute returns after its select: the value received from done
\* on that branch; on the stop branch the err of cmd.Start, which is nil
\* (the err of Kill is a new variable of the case clause)
SelectResult_shadowed(branch, starterr, recv) == starterr

SelectResult(branch, starterr, recv) ==
    IF branch = "done" THEN recv ELSE starterr

\* case <-stop: cmd.Process.Kill(), then return the counts and err
XSelectStop ==
    /\ xpc = "select"
    /\ xstopKind = "chan"
    /\ xstop
    /\ killCalls' = killCalls + 1
    /\ IF proc = "running"
       THEN proc' = "killed" /\ status' = ErrKilled
       ELSE UNCHANGED <<proc, status>>
    /\ xres' = [nout |-> outn, nerr |-> errn,
                err |-> SelectResult("stop", ErrNil, ErrNil)]
    /\ xpath' = "stop"
    /\ xpc' = "returned"
    /\ stopAtReturn' = xstop
    /\ UNCHANGED <<xstopKind, xstop, waiter, done, doneClosed, outn, errn,
                   exitedFirst, launchOK>>
    /\ UNCHANGED loopVars
    /\ UNCHANGED pVars

\* case err = <-done: return the counts and the status of the process
XSelectDone ==
    /\ xpc = "select"
    /\ done # <<>> \/ doneClosed
    /\ xres' = [nout |-> outn, nerr |-> errn,
                err |-> SelectResult("done", ErrNil,
                                     IF done # <<>> THEN Head(done) ELSE ErrNil)]
    /\ done' = IF done # <<>> THEN Tail(done) ELSE done
    /\ xpath' = "done"
    /\ xpc' = "returned"
    /\ stopAtReturn' = xstop
    /\ UNCHANGED <<xstopKind, xstop, proc, status, waiter, doneClosed, outn,
                   errn, killCalls, exitedFirst, launchOK>>
    /\ UNCHANGED loopVars
    /\ UNCHANGED pVars

NextX ==
    \/ XStart
    \/ CancelFire
    \/ ProcWrite
    \/ ProcExit
    \/ WaiterSend
    \/ WaiterClose
    \/ XSelectStop
    \/ XSelectDone

SpecX == InitX /\ [][NextX]_vars

\* the goroutines of Execute are scheduled fairly; nothing is assumed of the
\* process or of the caller's cancel signal
FairSpecX ==
    /\ SpecX
    /\ WF_vars(XStart) /\ WF_vars(WaiterSend) /\ WF_vars(WaiterClose)
    /\ WF_vars(XSelectStop) /\ WF_vars(XSelectDone)

\* ------------------------------------------------------------ write
\* One call of cmdWrite_page, cmdWrite_file or testFilter, each of which
\* calls Execute once.  wr is the call: its kind, its position, what
\* jq.Input() returns to it, its output sink (the pager's stdin pipe or the
\* created file), the goroutine of cmdWrite_page that watches the pager, the
\* pageerr channel, the error of cmdWrite_io, the result and what was logged
\* as a pager error.  pg is the pager of Page: the process, its failure, and
\* the channel errch (capacity 1).
\* the file names given to write: a new file, and a file that exists
WriteFiles == {"out.json", "data.json"}

\* the session around the command that SpecW follows: after prior earlier
\* commands the loop has read cmd, flagged final or not, and has handed it
\* to an executor goroutine, which is inside the handler; the ready token is
\* taken and stop is open
WSession(cmd, eof, prior) ==
    /\ stop = FALSE
    /\ stopCloses = 0
    /\ ready = 0
    /\ readers = {}
    /\ execs = {[id |-> 2 * prior + 2, pc |-> "exec", rid |-> prior + 1,
                 cmd |-> cmd, eof |-> eof, err |-> ErrNil, res |-> ErrNil,
                 pre |-> <<>>, disp |-> NoLibRet]}
    /\ loopPc = "select"
    /\ waitPc = "waiting"
    /\ waitErr = ErrNil
    /\ ngo = 2 * prior + 2
    /\ nread = prior + 1
    /\ readIds = [i \in 1..(prior + 1) |-> i]
    /\ execIds = [i \in 1..prior |-> i]
    /\ outstanding = {[id |-> prior + 1, cmd |-> cmd]}
    /\ finalSeen = eof
    /\ fatalSeen = FALSE
    /\ quitSeen = FALSE
    /\ lastErr = ErrNil
    /\ logs = {}

\* The command that SpecW follows is a write to the pager, a write to the
\* file n, or a quiet push, whose handler calls testFilter after it has
\* put the filter on the stack.  Without an input the command is the first
\* of the session; with one, load data.json came before it, and the file is
\* still there or has been removed since.
InitW ==
    /\ version = "commands.go"
    /\ xpc = "idle"
    /\ xstopKind = "nil"
    /\ launchOK \in BOOLEAN
    /\ xstop = FALSE
    /\ proc = "none"
    /\ status = ErrNil
    /\ waiter = "none"
    /\ done = <<>>
    /\ doneClosed = FALSE
    /\ outn = 0
    /\ errn = 0
    /\ xres = [nout |-> 0, nerr |-> 0, err |-> ErrNil]
    /\ xpath = "none"
    /\ killCalls = 0
    /\ exitedFirst = FALSE
    /\ stopAtReturn = FALSE
    /\ SIdle
    /\ RIdle
    /\ \E k \in {"page", "file", "test"}, i \in {"ok", "noinput", "openerr"},
          n \in WriteFiles \cup {""}, eof \in BOOLEAN :
          /\ k = "test" => i = "ok"
          /\ k = "file" <=> n # ""
          /\ wr = [NoWrite EXCEPT !.kind = k, !.pc = "call", !.input = i,
                                  !.file = n]
          /\ sh = [Stack |-> IF k = "test" THEN Push(<<>>, ".a") ELSE <<>>,
                   filename |-> IF i = "noinput" THEN "" ELSE "data.json",
                   istmp |-> FALSE, inputfn |-> "", err |-> ErrNil]
          /\ fs = [files |-> IF i = "openerr" THEN UserFiles \ {"data.json"}
                             ELSE UserFiles,
                   removes |-> [p \in TmpSet |-> 0], creates |-> {},
                   ntmp |-> 0]
          /\ WSession(IF k = "test" THEN <<"push", "-q", ".a">>
                      ELSE IF k = "file" THEN <<"write", n>>
                      ELSE <<"write">>,
                      eof, IF i = "noinput" THEN 0 ELSE 1)
    /\ pg = NoPager
    /\ OIdle

\* Page(nil): os.Pipe fails (the error is sent, errch stays open, no writer
\* is returned), or cmd.Start fails (the error is sent, both pipe ends and
\* errch are closed, no writer is returned), or the pager runs and the write
\* end of the pipe is returned
WPage ==
    /\ wr.kind = "page"
    /\ wr.pc = "call"
    /\ \E out \in {"pipe", "start", "ok"} :
          /\ pg' = IF out = "pipe"
                   THEN [NoPager EXCEPT !.err = ErrPipe, !.errch = <<ErrPipe>>]
                   ELSE IF out = "start"
                   THEN [NoPager EXCEPT !.err = ErrStart, !.errch = <<ErrStart>>,
                                        !.closed = TRUE]
                   ELSE [NoPager EXCEPT !.proc = "running"]
          /\ wr' = [wr EXCEPT !.pc = "check",
                              !.sink = IF out = "pipe" THEN "none"
                                       ELSE IF out = "start" THEN "closed"
                                       ELSE "open"]
    /\ UNCHANGED <<loopVars, xVars, sVars, rVars, oVars>>

\* the pager exits, with status 0 or not
PagerExit ==
    /\ pg.proc = "running"
    /\ \E st \in {ErrNil, ErrExit1} :
          pg' = [pg EXCEPT !.proc = "exited", !.err = st]
    /\ UNCHANGED <<loopVars, xVars, sVars, rVars, oVars, wr>>

\* the goroutine of Page: err := cmd.Wait(); if err != nil { errch <- err };
\* close(errch)
PagerWait ==
    /\ pg.proc = "exited"
    /\ pg' = [pg EXCEPT !.proc = "reaped",
                        !.errch = IF pg.err # ErrNil THEN <<pg.err>> ELSE <<>>,
                        !.closed = TRUE]
    /\ UNCHANGED <<loopVars, xVars, sVars, rVars, oVars, wr>>

\* a receive from a channel that holds a value or is closed
CanRecv(ch, closed) == ch # <<>> \/ closed
Recv(ch) == IF ch # <<>> THEN Head(ch) ELSE ErrNil

\* select { case err := <-errch: return err; default: }, then the goroutine
\* that watches the pager is started
WCheck ==
    /\ wr.pc = "check"
    /\ IF CanRecv(pg.errch, pg.closed)
       THEN /\ wr' = [wr EXCEPT !.pc = "returned", !.res = Recv(pg.errch)]
            /\ pg' = [pg EXCEPT !.errch = <<>>]
       ELSE /\ wr' = [wr EXCEPT !.pc = "io", !.checked = TRUE,
                                !.watcher = "recv"]
            /\ UNCHANGED pg
    /\ UNCHANGED <<loopVars, xVars, sVars, rVars, oVars>>

\* go func() { err := <-errch; close(stop); if err != nil { pageerr <- err };
\* close(pageerr) }()
WatcherRecv ==
    /\ wr.watcher = "recv"
    /\ CanRecv(pg.errch, pg.closed)
    /\ xstop' = TRUE
    /\ wr' = [wr EXCEPT !.watcher = "gone",
                        !.pageerr = IF Recv(pg.errch) # ErrNil
                                    THEN <<Recv(pg.errch)>> ELSE <<>>,
                        !.pageerrClosed = TRUE]
    /\ pg' = [pg EXCEPT !.errch = <<>>]
    /\ UNCHANGED <<xpc, xstopKind, proc, status, waiter, done, doneClosed,
                   outn, errn, xres, xpath, killCalls, exitedFirst,
                   stopAtReturn, launchOK>>
    /\ UNCHANGED <<loopVars, sVars, rVars, oVars>>

\* f, err := os.Create(filename); if err != nil { return err }: the file is
\* made, or the one there is emptied
WCreate ==
    /\ wr.kind = "file"
    /\ wr.pc = "call"
    /\ \E ok \in BOOLEAN :
          /\ wr' = IF ok THEN [wr EXCEPT !.pc = "io", !.sink = "open"]
                   ELSE [wr EXCEPT !.pc = "returned", !.res = ErrCreate]
          /\ fs' = IF ok THEN [fs EXCEPT !.files = @ \cup {wr.file},
                                         !.creates = @ \cup {wr.file}]
                   ELSE fs
    /\ UNCHANGED <<version, sh, stop, stopCloses, ready, readers, execs, loopPc,
                   waitPc, waitErr, ngo, nread, readIds, execIds, outstanding,
                   finalSeen, fatalSeen, quitSeen, lastErr, logs>>
    /\ UNCHANGED <<xVars, sVars, rVars, oVars, pg>>

\* cmdWrite_io returns err (its deferred w.Close() runs) and the caller goes
\* on: cmdWrite_file returns err; cmdWrite_page returns err if it is not nil
\* and otherwise waits for pageerr
AfterIo(w, err) ==
    [w EXCEPT !.sink = "closed", !.ioerr = err, !.res = err,
              !.pc = IF w.kind = "page" /\ err = ErrNil THEN "wait"
                     ELSE "returned"]

\* cmdWrite_io up to its call of Execute: r, err := jq.Input()
WIo ==
    /\ wr.pc = "io"
    /\ IF wr.input = "noinput"
       THEN wr' = AfterIo(wr, ErrNil) /\ UNCHANGED <<xpc, xstopKind>>
       ELSE IF wr.input = "openerr"
       THEN wr' = AfterIo(wr, ErrOpen) /\ UNCHANGED <<xpc, xstopKind>>
       ELSE /\ wr' = [wr EXCEPT !.pc = "exec"]
            /\ xpc' = "call"
            /\ xstopKind' = IF wr.kind = "page" THEN "chan" ELSE "nil"
    /\ UNCHANGED <<xstop, proc, status, waiter, done, doneClosed, outn, errn,
                   xres, xpath, killCalls, exitedFirst, stopAtReturn, launchOK>>
    /\ UNCHANGED <<loopVars, sVars, rVars, oVars, pg>>

\* cmdWrite_io after Execute: a non-nil err is wrapped in ExecError
WIoReturn ==
    /\ wr.pc = "exec"
    /\ wr.kind \in {"page", "file"}
    /\ xpc = "returned"
    /\ wr' = AfterIo(wr, IF xres.err # ErrNil THEN ExecError(xres.err)
                         ELSE ErrNil)
    /\ UNCHANGED <<loopVars, xVars, sVars, rVars, oVars, pg>>

\* pageErr := <-pageerr; if pageErr != nil { jq.log("pager: ", pageErr) };
\* return nil
WWaitPage_returnsPagerError ==
    /\ wr.pc = "wait"
    /\ CanRecv(wr.pageerr, wr.pageerrClosed)
    /\ wr' = [wr EXCEPT !.pc = "returned", !.res = Recv(wr.pageerr),
                        !.pageerr = <<>>]
    /\ UNCHANGED <<loopVars, xVars, sVars, rVars, oVars, pg>>

WWaitPage ==
    /\ wr.pc = "wait"
    /\ CanRecv(wr.pageerr, wr.pageerrClosed)
    /\ wr' = [wr EXCEPT !.pc = "returned", !.res = ErrNil,
                        !.logged = IF Recv(wr.pageerr) # ErrNil
                                   THEN {Recv(wr.pageerr)} ELSE {},
                        !.pageerr = <<>>]
    /\ UNCHANGED <<loopVars, xVars, sVars, rVars, oVars, pg>>

\* testFilter: a goroutine calls Execute with testFilter's own stop channel
TestSpawn ==
    /\ wr.kind = "test"
    /\ wr.pc = "call"
    /\ wr' = [wr EXCEPT !.pc = "tselect"]
    /\ xpc' = "call"
    /\ xstopKind' = "chan"
    /\ UNCHANGED <<xstop, proc, status, waiter, done, doneClosed, outn, errn,
                   xres, xpath, killCalls, exitedFirst, stopAtReturn, launchOK>>
    /\ UNCHANGED <<loopVars, sVars, rVars, oVars, pg>>

\* case <-done: the goroutine's Execute has returned
TestDone ==
    /\ wr.pc = "tselect"
    /\ xpc = "returned"
    /\ wr' = [wr EXCEPT !.pc = "returned",
                        !.res = IF xres.err # ErrNil THEN ErrFilter(xres.err)
                                ELSE ErrNil]
    /\ UNCHANGED <<loopVars, xVars, sVars, rVars, oVars, pg>>

\* case <-time.After(testFilterTimeout): close(stop)
TestTimeout ==
    /\ wr.pc = "tselect"
    /\ xstop' = TRUE
    /\ wr' = [wr EXCEPT !.pc = "returned", !.res = ErrTimeout]
    /\ UNCHANGED <<xpc, xstopKind, proc, status, waiter, done, doneClosed,
                   outn, errn, xres, xpath, killCalls, exitedFirst,
                   stopAtReturn, launchOK>>
    /\ UNCHANGED <<loopVars, sVars, rVars, oVars, pg>>

\* err = jq.execute(cmd.cmd, err) returns in the executor goroutine once the
\* handler's write or test has returned: Lib.exec wraps the handler's error
\* in an ExecError, and cmdPush has popped its filter after a failed test
WReturn ==
    \E e \in execs :
        /\ e.pc = "exec"
        /\ wr.pc = "returned"
        /\ \E r \in {Wrapped([w |-> World, err |-> wr.res], Head(e.cmd),
                              Tail(e.cmd))} :
              /\ execs' = (execs \ {e}) \cup
                    {[e EXCEPT !.pc = "post", !.res = r.err,
                               !.disp = [invoked |-> r.invoked,
                                         cause |-> r.cause, cmd |-> r.cmd]]}
              /\ lastErr' = r.err
        /\ sh' = IF wr.kind = "test" /\ wr.res # ErrNil
                 THEN [sh EXCEPT !.Stack = PopN(@, 1).s]
                 ELSE sh
        /\ execIds' = Append(execIds, e.rid)
        /\ UNCHANGED <<version, fs, stop, stopCloses, ready, readers, loopPc,
                       waitPc, waitErr, ngo, nread, readIds, outstanding,
                       finalSeen, fatalSeen, quitSeen, logs>>
        /\ UNCHANGED <<xVars, sVars, rVars, oVars, wr, pg>>

\* the command's handler, and after it the executor goroutine and the loop
\* as in Spec: the executor closes stop after a final command and sends
\* ready otherwise
NextW ==
    \/ WPage
    \/ PagerExit
    \/ PagerWait
    \/ WCheck
    \/ WatcherRecv
    \/ WCreate
    \/ WIo
    \/ WIoReturn
    \/ WWaitPage
    \/ TestSpawn
    \/ TestDone
    \/ TestTimeout
    \/ XStart
    \/ ProcWrite
    \/ ProcExit
    \/ WaiterSend
    \/ WaiterClose
    \/ XSelectStop
    \/ XSelectDone
    \/ WReturn
    \/ ExecStop
    \/ ExecContinue
    \/ LoopStop
    \/ Wait

SpecW == InitW /\ [][NextW]_vars

\* ------------------------------------------------------------ JQStack alone
\* A JQStack exercised by itself with the filters of the tests: a Filter is
\* the list of fragments its JQFilter method returns (MockFilter; a
\* FilterString s is the one-fragment list <<s>>).
MaxOps == 4

Filters == { <<>>, <<"hello">>, <<"world">>, <<"!">>, <<"hello", "world">> }



InitS ==
    /\ version = "jqsh.go"
    /\ Init0
    /\ XIdle
    /\ SIdle
    /\ RIdle
    /\ WIdle
    /\ OIdle

\* s.Push(f)
SPush ==
    \E f \in Filters :
        /\ nops < MaxOps
        /\ pipe' = Push(pipe, f)
        /\ sop' = [op |-> "push", arg |-> f, n |-> 0, err |-> ErrNil]
        /\ nops' = nops + 1
        /\ npushed' = npushed + 1
        /\ popsum' = 0
        /\ UNCHANGED <<loopVars, xVars, rVars, oVars, wVars>>

\* s.Pop()
SPop ==
    /\ nops < MaxOps
    /\ pipe' = Pop(pipe).s
    /\ sop' = [op |-> "pop",
               arg |-> IF pipe = <<>> THEN <<>> ELSE pipe[Len(pipe)],
               n |-> 1, err |-> Pop(pipe).err]
    /\ nops' = nops + 1
    /\ popsum' = popsum + 1
    /\ UNCHANGED <<npushed, loopVars, xVars, rVars, oVars, wVars>>

\* the loop of cmdPop: n times s.Pop(), errors dropped
SCmdPop ==
    \E n \in 0..MaxOps :
        /\ nops < MaxOps
        /\ pipe' = PopLoop(pipe, n)
        /\ sop' = [op |-> "cmdPop", arg |-> <<>>, n |-> n, err |-> ErrNil]
        /\ nops' = nops + 1
        /\ popsum' = popsum + n
        /\ UNCHANGED <<npushed, loopVars, xVars, rVars, oVars, wVars>>

NextS ==
    \/ SPush
    \/ SPop
    \/ SCmdPop

SpecS == InitS /\ [][NextS]_vars

\* ------------------------------------------------------------ ReadCommand
\* SimpleShellReader.ReadCommand on the bytes of its input.  The reader's
\* input is every sequence of at most MaxLen bytes of Alphabet, the lines of
\* the tests, and lines with white space outside ASCII.
MaxLen == 4

Alphabet == {58, 43, 46, 63, 32, 97, 10}

RECURSIVE Strings(_)
Strings(n) ==
    IF n = 0 THEN {<<>>}
    ELSE LET S == Strings(n - 1)
         IN S \cup {Append(t, c) : t \in S, c \in Alphabet}

TestLines == { Bytes(":pop"), Bytes(":push .items .[]"),
               Bytes(":push +.items | .[]"), Bytes(".items | .[]"),
               Bytes("?.items | .[]"), Bytes("."), Bytes(".."),
               Bytes("\n.."), Bytes("\n"), Bytes(":hello shell"),
               Bytes(":hello\n:shell\n"), Bytes(":load a+b.json") }

\* U+00A0, U+0085, U+1680, U+2003 and U+3000 in UTF-8, a byte that starts no
\* rune, and a rune cut short
SpaceLines == { <<194, 160>> \o Bytes(".\n"),
                <<227, 128, 128>> \o Bytes("..\n"),
                Bytes(":push") \o <<194, 160>> \o Bytes("a"),
                Bytes(":push") \o <<227, 128, 128>> \o Bytes("a\n"),
                Bytes("?a") \o <<194, 133>>,
                Bytes(".") \o <<225, 154, 128, 10>>,
                <<226, 128, 131, 10>> \o Bytes("a"),
                <<11, 12>> \o Bytes("a\n"),
                <<160>> \o Bytes(".\n"),
                Bytes(".") \o <<226, 128, 10>> }

Inputs == Strings(MaxLen) \cup TestLines \cup SpaceLines

\* bytes.Index(bs, sep) for a one-byte sep: 0-based, -1 when absent
Index(bs, sep) ==
    IF \E i \in 1..Len(bs) : bs[i] = sep
    THEN (CHOOSE i \in 1..Len(bs) :
              /\ bs[i] = sep
              /\ \A j \in 1..(i - 1) : bs[j] # sep) - 1
    ELSE -1

\* bufio.Reader.ReadBytes('\n'): the bytes up to and including the first
\* newline, or all the bytes left and io.EOF
ReadBytes(in) ==
    LET i == Index(in, 10)
    IN IF i >= 0
       THEN [bs |-> SubSeq(in, 1, i + 1), rest |-> SubSeq(in, i + 2, Len(in)),
             err |-> ErrNil]
       ELSE [bs |-> in, rest |-> <<>>, err |-> ErrEOF]

\* bytes.TrimLeftFunc(bs, unicode.IsSpace): from the first rune, read from
\* byte i on, that is not white space
RECURSIVE TrimLeftSpace(_, _)
TrimLeftSpace(bs, i) ==
    IF i > Len(bs) THEN <<>>
    ELSE IF ~IsSpaceAt(bs, i) THEN SubSeq(bs, i, Len(bs))
    ELSE TrimLeftSpace(bs, i + DecodeRune(bs, i).n)

\* bytes.TrimRightFunc(bs, unicode.IsSpace): up to the last rune, read
\* backwards from byte i, that is not white space; the end of that rune is
\* found by decoding it forwards
RECURSIVE TrimRightSpace(_, _)
TrimRightSpace(bs, i) ==
    IF i = 0 THEN <<>>
    ELSE LET d == DecodeLastRune(SubSeq(bs, 1, i))
         IN IF IsSpace(d.r) THEN TrimRightSpace(bs, i - d.n)
            ELSE SubSeq(bs, 1, (i - d.n) + DecodeRune(bs, i - d.n + 1).n)

\* bytes.TrimFunc(bs, unicode.IsSpace)
TrimSpace(bs) ==
    LET left == TrimLeftSpace(bs, 1)
    IN TrimRightSpace(left, Len(left))

\* strings.Fields: the maximal runs of runes that are not white space, in
\* order
RECURSIVE FieldsFrom(_, _, _)
FieldsFrom(str, i, cur) ==
    IF i > Len(str)
    THEN IF cur = <<>> THEN <<>> ELSE <<cur>>
    ELSE IF IsSpaceAt(str, i)
    THEN (IF cur = <<>> THEN <<>> ELSE <<cur>>)
             \o FieldsFrom(str, i + DecodeRune(str, i).n, <<>>)
    ELSE FieldsFrom(str, i + DecodeRune(str, i).n,
                    cur \o SubSeq(str, i, i + DecodeRune(str, i).n - 1))

Fields(str) == FieldsFrom(str, 1, <<>>)

\* the shorthands: a trimmed, non-empty line that does not start with ':'
Shorthand_peekKeepsSigil(bs) ==
    IF bs = Bytes("..") THEN <<Bytes("pop")>>
    ELSE IF bs = Bytes(".") THEN <<Bytes("write")>>
    ELSE IF bs[1] = ByteOf("?") THEN <<Bytes("peek"), bs>>
    ELSE <<Bytes("push"), bs>>

Shorthand(bs) ==
    IF bs = Bytes("..") THEN <<Bytes("pop")>>
    ELSE IF bs = Bytes(".") THEN <<Bytes("write")>>
    ELSE IF bs[1] = ByteOf("?") THEN <<Bytes("peek"), SubSeq(bs, 2, Len(bs))>>
    ELSE <<Bytes("push"), bs>>

\* a trimmed line that starts with ':': the words after the colon, and the
\* text after a '+' as one last word
ColonCommand_splitsLast(bs) == Fields(SubSeq(bs, 2, Len(bs)))

ColonCommand(bs) ==
    LET bs1 == SubSeq(bs, 2, Len(bs))
        plusi == Index(bs1, ByteOf("+"))
    IN IF plusi > 0
       THEN Fields(SubSeq(bs1, 1, plusi))
                \o <<SubSeq(bs1, plusi + 2, Len(bs1))>>
       ELSE Fields(bs1)

\* ReadCommand: line is the bytes of the last ReadBytes, rest what is left
RECURSIVE SimpleReadCommand(_)
SimpleReadCommand(in) ==
    LET rb == ReadBytes(in)
        eof == rb.err = ErrEOF
        bs == TrimSpace(rb.bs)
    IN IF rb.err # ErrNil /\ ~(eof /\ Len(rb.bs) > 0)
       THEN [cmd |-> <<>>, eof |-> eof, err |-> rb.err, line |-> rb.bs,
             rest |-> rb.rest]
       ELSE IF Len(bs) = 0
       THEN IF eof
            THEN [cmd |-> <<>>, eof |-> eof, err |-> ErrNil, line |-> rb.bs,
                  rest |-> rb.rest]
            ELSE SimpleReadCommand(rb.rest)
       ELSE IF bs[1] # ByteOf(":")
       THEN [cmd |-> Shorthand(bs), eof |-> eof, err |-> ErrNil,
             line |-> rb.bs, rest |-> rb.rest]
       ELSE [cmd |-> ColonCommand(bs), eof |-> eof, err |-> ErrNil,
             line |-> rb.bs, rest |-> rb.rest]

InitR ==
    /\ version = "commands.go"
    /\ Init0
    /\ XIdle
    /\ SIdle
    /\ WIdle
    /\ OIdle
    /\ rin \in Inputs
    /\ rline = <<>>
    /\ rout = NoRead
    /\ rcalls = 0

\* one call of ReadCommand; it is not called again after a final result
RReadCommand ==
    /\ ~rout.eof
    /\ LET r == SimpleReadCommand(rin)
       IN /\ rout' = [cmd |-> r.cmd, eof |-> r.eof, err |-> r.err]
          /\ rline' = r.line
          /\ rin' = r.rest
    /\ rcalls' = rcalls + 1
    /\ UNCHANGED <<loopVars, xVars, sVars, wVars, oVars>>

NextR == RReadCommand

SpecR == InitR /\ [][NextR]_vars

\* ------------------------------------------------------------ shellParser
\* The quote-aware lexer of jqsh.go on one line.  lx is the lexer: the input,
\* the position pos and the start of the pending token (bytes consumed), the
\* width of the last rune read, the state function to run next (fn; the two
\* closures and their for loops are states of their own; "done" is the nil
\* state function), the quote character of the string being lexed, the items
\* emitted, and the number of state functions and loop iterations run.
MaxLexLen == 4
MaxLexSteps == 14

LexAlphabet == {58, 43, 46, 32, 97, 39, 92}

RECURSIVE LexStrings(_)
LexStrings(n) ==
    IF n = 0 THEN {<<>>}
    ELSE LET S == LexStrings(n - 1)
         IN S \cup {Append(t, c) : t \in S, c \in LexAlphabet}

\* lines with white space outside ASCII (U+00A0, U+2003, U+0085, U+3000)
\* and with bytes that are no UTF-8
LexLines == { Bytes(":") \o <<194, 160>> \o Bytes("a"),
              Bytes(":") \o <<226, 128, 131>> \o Bytes("a"),
              Bytes(":") \o <<194, 133>> \o Bytes("a"),
              Bytes(":''") \o <<194, 160>>,
              Bytes(":a") \o <<227, 128, 128>> \o Bytes("b"),
              Bytes(":a") \o <<255>>,
              Bytes(":''") \o <<160>>,
              Bytes(":'\\") \o <<194>>,
              Bytes("?") \o <<255>> }

LexInputs == LexStrings(MaxLexLen) \cup LexLines

\* lexer.EOF, the rune that Advance and Peek return at the end of the input
LexEOF == -1

\* the rune at pos and its width; at the end of the input EOF and 0
LexIsEOF(l) == l.pos >= Len(l.input)
LexRune(l) == IF LexIsEOF(l) THEN LexEOF ELSE DecodeRune(l.input, l.pos + 1).r
LexWidth(l) == IF LexIsEOF(l) THEN 0 ELSE DecodeRune(l.input, l.pos + 1).n
LexIsSpace(c) == IsSpace(c)

\* lexer.IsInvalid(c, n) of the rune at pos
LexIsInvalid(l) == LexRune(l) = RuneError /\ LexWidth(l) = 1

\* lex.Advance(): read the next rune; at the end of the input the width is 0
Advance(l) ==
    IF LexIsEOF(l) THEN [l EXCEPT !.width = 0]
    ELSE [l EXCEPT !.pos = @ + LexWidth(l), !.width = LexWidth(l)]

\* lex.Backup(): undo the last Advance
Backup(l) == [l EXCEPT !.pos = @ - l.width, !.width = 0]

\* lex.Accept(valid): whether the next rune is one of valid; it is read if so
Accepts(l, valid) == ~LexIsEOF(l) /\ LexRune(l) \in valid

\* lex.AcceptString(str)
AcceptsString(l, str) ==
    /\ l.pos + Len(str) <= Len(l.input)
    /\ SubSeq(l.input, l.pos + 1, l.pos + Len(str)) = str

\* lex.AcceptRunFunc(unicode.IsSpace)
RECURSIVE AcceptRunSpace(_)
AcceptRunSpace(l) ==
    IF Accepts(l, UnicodeSpace) THEN AcceptRunSpace(Advance(l))
    ELSE l

\* lex.Ignore()
Ignore(l) == [l EXCEPT !.start = l.pos]

\* lex.Emit(typ): the pending text becomes an item
Emit(l, typ) ==
    [l EXCEPT !.items = Append(@, [typ |-> typ,
                                   val |-> SubSeq(l.input, l.start + 1, l.pos)]),
              !.start = l.pos]

\* return lex.Errorf(...): an error item, and no next state function
Errorf(l, msg) ==
    [l EXCEPT !.items = Append(@, [typ |-> "error", val |-> msg]),
              !.fn = "done"]

To(l, fn) == [l EXCEPT !.fn = fn]
Stepped(l) == [l EXCEPT !.steps = @ + 1]

InitLex ==
    /\ version = "jqsh.go"
    /\ Init0
    /\ XIdle
    /\ SIdle
    /\ RIdle
    /\ WIdle
    /\ qs = NoSession
    /\ lib = NoLib
    /\ \E in \in LexInputs :
          lx = [NoLex EXCEPT !.input = in, !.fn = "lexStart"]

\* the lexer runs fn once: UNCHANGED of everything else
LexRuns(fn) ==
    /\ lx.fn = fn
    /\ lx.steps < MaxLexSteps
    /\ UNCHANGED <<loopVars, xVars, sVars, rVars, wVars, qs, lib>>

\* ".." or "." must be the whole line
DotEnd(l, typ) ==
    IF Advance(l).width # 0
    THEN Errorf(Advance(l), "expected end-of-input")
    ELSE To(Emit(Emit(Advance(l), typ), "EOF"), "done")

LexStart ==
    /\ LexRuns("lexStart")
    /\ lx' = Stepped(
          IF Accepts(lx, {ByteOf(":")})
          THEN To(Emit(Advance(lx), "colon"), "lexCommand")
          ELSE IF Accepts(lx, {ByteOf("?")})
          THEN To(Emit(Advance(lx), "qmark"), "lexSlurp")
          ELSE IF AcceptsString(lx, Bytes(".."))
          THEN DotEnd(Advance(Advance(lx)), "dotdot")
          ELSE IF Accepts(lx, {ByteOf(".")}) THEN DotEnd(Advance(lx), "dot")
          ELSE To(lx, "lexSlurp"))

LexCommand ==
    /\ LexRuns("lexCommand")
    /\ lx' = Stepped(
          LET l == Ignore(AcceptRunSpace(lx))
          IN IF Accepts(l, {ByteOf("+")}) THEN To(Advance(l), "lexSlurp")
             ELSE To(l, "lexStringCont"))

\* the closure of lexStringCont up to its for loop
LexStringCont ==
    /\ LexRuns("lexStringCont")
    /\ lx' = Stepped(
          IF Accepts(lx, {ByteOf("'")})
          THEN [To(Backup(Advance(lx)), "quote") EXCEPT !.q = ByteOf("'")]
          ELSE IF Accepts(lx, {ByteOf("\"")})
          THEN [To(Backup(Advance(lx)), "quote") EXCEPT !.q = ByteOf("\"")]
          ELSE To(lx, "stringLoop"))

\* one iteration of the for loop of lexStringCont: at the end of the input
\* the item is emitted and the loop goes on
LexStringLoop ==
    /\ LexRuns("stringLoop")
    /\ lx' = Stepped(
          LET l == Advance(lx)
          IN IF l.width = 0 THEN Emit(l, "string")
             ELSE IF LexIsInvalid(lx) THEN Errorf(l, "invalid utf-8 rune")
             ELSE IF LexIsSpace(LexRune(lx))
             THEN To(Emit(Backup(l), "string"), "lexCommand")
             ELSE l)

\* the closure of lexStringContQuote up to its for loop
LexQuote ==
    /\ LexRuns("quote")
    /\ lx' = Stepped(
          IF ~Accepts(lx, {lx.q}) THEN Errorf(lx, "expected quote")
          ELSE To(Advance(lx), "quoteLoop"))

\* one iteration of the for loop of lexStringContQuote: the closing quote,
\* or an escape and the rune after it, or nothing
LexQuoteLoop ==
    /\ LexRuns("quoteLoop")
    /\ lx' = Stepped(
          IF Accepts(lx, {lx.q})
          THEN LET l == Emit(Advance(lx), "string")
               IN IF LexIsEOF(l) THEN To(l, "lexCommand")
                  ELSE IF LexIsInvalid(l) THEN Errorf(l, "invalid utf-8 rune")
                  ELSE IF ~LexIsSpace(LexRune(l))
                  THEN Errorf(l, "string not followed by space or end-of-input")
                  ELSE To(l, "lexCommand")
          ELSE IF Accepts(lx, {ByteOf("\\")})
          THEN LET l == Advance(Advance(lx))
               IN IF l.width = 0
                  THEN Errorf(l, "unexpected end-of-input following escape")
                  ELSE IF LexIsInvalid(Advance(lx))
                  THEN Errorf(l, "invalid utf-8 rune")
                  ELSE l
          ELSE lx)

\* one iteration of the for loop of lexSlurp
LexSlurp ==
    /\ LexRuns("lexSlurp")
    /\ lx' = Stepped(
          LET l == Advance(lx)
          IN IF l.width = 0 THEN To(Emit(l, "string"), "done")
             ELSE IF LexIsInvalid(lx) THEN Errorf(l, "invalid utf-8 rune")
             ELSE l)

NextLex ==
    \/ LexStart
    \/ LexCommand
    \/ LexStringCont
    \/ LexStringLoop
    \/ LexQuote
    \/ LexQuoteLoop
    \/ LexSlurp

SpecLex == InitLex /\ [][NextLex]_vars

\* ================================================================ claims
IsPrefix(a, b) == Len(a) <= Len(b) /\ SubSeq(b, 1, Len(a)) = a

Reading == \E r \in readers : r.pc = "read"

\* C1: at most one command handler executes at any moment, and while one
\* executes (its follow-up write and push revert included) no next read has
\* been started or enabled; the loop's own cleanup of the input source runs
\* only when no handler is executing.
C1_OneHandlerAtATime ==
    /\ Cardinality(execs) <= 1
    /\ execs # {} => (readers = {} /\ ready = 0 /\ loopPc = "select")
    /\ loopPc = "returned" => execs = {}

C1_Witness ==
    \E e \in execs : e.pc = "post" /\ e.cmd = <<"push", ".a">> /\ Len(execIds) >= 2

\* C2: commands are dispatched in the order ReadCommand returned them, each
\* exactly once, the dispatched command is the one that was read, and a
\* command is read only after every earlier one has finished.
C2_InOrderExactlyOnce ==
    /\ IsPrefix(execIds, readIds)
    /\ Len(readIds) - Len(execIds) <= 1
    /\ Cardinality(outstanding) <= 1
    /\ \A e \in execs : e.cmd # <<>> => [id |-> e.rid, cmd |-> e.cmd] \in outstanding
    /\ \A e \in execs : e.pc = "post" /\ e.cmd # <<>> =>
            (execIds # <<>> /\ execIds[Len(execIds)] = e.rid)
    /\ loopPc = "returned" => (execIds = readIds /\ outstanding = {})

C2_Witness == Len(execIds) >= 3 /\ loopPc = "returned"

\* C3: once a dispatched command has returned the quit outcome no further
\* command is read or executed, and Wait eventually returns.
C3_QuitStopsLoop ==
    /\ [][quitSeen => (nread' = nread /\ execIds' = execIds /\ ready' = 0)]_vars
    /\ (quitSeen ~> (waitPc = "returned"))

C3_Witness == quitSeen /\ waitPc = "returned" /\ nread < MaxReads

\* C4: after ReadCommand has returned a result flagged final no further
\* ReadCommand call is made or enabled; the executor that was handed the
\* final result ends by closing stop, whatever the command returned, and
\* when the result carried a command that command has been executed by
\* then; and the loop returns.
C4_FinalCommandThenStop ==
    /\ [](finalSeen => (ready = 0 /\ ~Reading))
    /\ [][finalSeen => nread' = nread]_vars
    /\ [][\A e \in execs :
            (e.eof /\ ~(\E f \in execs' : f.id = e.id)) =>
                /\ stop'
                /\ e.pc = "post"
                /\ e.cmd # <<>> =>
                      (execIds # <<>> /\ execIds[Len(execIds)] = e.rid)]_vars
    /\ (finalSeen ~> (loopPc = "returned"))

C4_Witness ==
    /\ finalSeen
    /\ ~quitSeen
    /\ loopPc = "returned"
    /\ lastErr = ErrNil
    /\ Len(execIds) >= 2
    /\ execIds[Len(execIds)] = nread

\* C5: a malformed command, an unknown command or a handler error other
\* than quit never stops the loop (stop is closed only after the quit
\* outcome or a final result), and after such an error on a command that is
\* not final the loop calls ReadCommand again.
\* (A malformed command is a result carrying an InvalidCommandError; the
\* readers of this repository return none, so that case arises from the
\* loop's branch alone.)
NonFatalError ==
    \/ \E r \in readers : r.pc = "send" /\ r.res.err = ErrInvalid /\ ~r.res.eof
    \/ \E e \in execs : /\ e.pc = "post" /\ e.err = ErrNil /\ ~e.eof
                        /\ e.res # ErrNil /\ ~QuitOutcome(e.res)

C5_ErrorsDoNotTerminate ==
    /\ [](stop => (quitSeen \/ finalSeen))
    /\ (NonFatalError ~> Reading)

C5_Witness ==
    /\ lastErr = ErrUnknown
    /\ Reading
    /\ ~stop
    /\ nread >= 2

\* C6 (as claimed): once the loop has handled a read error that is neither
\* EOF nor a malformed command it reads no further command, and Wait
\* reports a non-nil error.
C6_FatalReadErrorEscalates ==
    /\ fatalSeen => (ready = 0 /\ readers = {})
    /\ (fatalSeen /\ waitPc = "returned") => waitErr # ErrNil

\* C10 (as claimed): no temporary file is removed more than once, and when
\* the session has terminated no temporary file is left.
C10_TmpDeletedExactlyOnce ==
    /\ \A p \in TmpSet : fs.removes[p] <= 1
    /\ loopPc = "returned" => (fs.files \cap TmpSet = {})

\* C7 (as claimed): when the cancel signal made Execute kill the running
\* process, the status Execute returns is not the nil of a successful run.
C7_CancelledStatusDistinct ==
    (xpc = "returned" /\ xpath = "stop" /\ status = ErrKilled) => xres.err # ErrNil

\* C8 (as claimed): when the process exited before the cancel signal fired,
\* Execute returns the exit status of the process.
C8_ExitStatusWhenProcessFirst ==
    (xpc = "returned" /\ exitedFirst) => xres.err = status

\* C8 (amended): when the cancel signal has not fired by the time Execute
\* returns after a successful launch, Execute returned through the done
\* branch with the exit status of the process (nil for exit 0).
C8_ExitStatusWhenNotCancelled ==
    (xpc = "returned" /\ launchOK /\ ~stopAtReturn) =>
        (xpath = "done" /\ xres.err = status /\ status \in {ErrNil, ErrExit1})

C8_Witness ==
    /\ xpc = "returned" /\ launchOK /\ ~stopAtReturn
    /\ xres.err = ErrExit1 /\ xstopKind = "chan"

\* C9: every Execute call returns if the process eventually exits or the
\* cancel signal eventually fires, and a call that launched the process
\* returns through the done branch or the stop branch.
ProcessGone == proc \in {"exited", "killed", "reaped"}

C9_ExecuteReturns ==
    /\ [](xpc = "returned" /\ launchOK => xpath \in {"done", "stop"})
    /\ ((<>ProcessGone \/ <>xstop) => <>(xpc = "returned"))

C9_Witness ==
    /\ xpc = "returned" /\ xpath = "done" /\ xstopKind = "nil"
    /\ status = ErrNil /\ outn + errn = MaxBytes

\* ---------------------------------------------------------------- C11-C13
\* the executor e is about to run a command named name that is well formed
Runs(e, name) ==
    /\ e.pc = "exec"
    /\ e.err = ErrNil
    /\ Len(e.cmd) > 0
    /\ Head(e.cmd) = name

\* the flags and arguments of the command of e as its handler parses them
FlagsOf(e) == Flags(e.cmd, version)

\* e is about to run the input-producing command (pipe, or exec in jqsh.go)
\* on a command its handler accepts
RunsPipe(e) ==
    /\ Runs(e, InputCmd(version))
    /\ FlagsOf(e).err = ErrNil
    /\ ~HasFlag(FlagsOf(e), "out")
    /\ IF version = "jqsh.go" THEN Len(FlagsOf(e).args) > 0
       ELSE Len(FlagsOf(e).args) = 1

\* e is about to run it without -c and without a file named by -o
RunsPipeToFile(e) ==
    /\ RunsPipe(e)
    /\ ~HasFlag(FlagsOf(e), "c")
    /\ FlagsOf(e).val["o"] = ""
    /\ version = "jqsh.go" => FlagsOf(e).val["O"] = ""

\* e is about to run it with -c
RunsPipeNoCache(e) ==
    /\ RunsPipe(e)
    /\ HasFlag(FlagsOf(e), "c")
    /\ FlagsOf(e).val["o"] = "" \/ FlagsOf(e).val["O"] = ""

\* the producer that the command of e hands to SetInput
Producer(e) ==
    IF version = "jqsh.go" THEN Join(FlagsOf(e).args, " ")
    ELSE FlagsOf(e).args[1]

\* e is about to run load on a file that can be opened
RunsLoad(e) ==
    /\ Runs(e, "load")
    /\ FlagsOf(e).err = ErrNil
    /\ Len(FlagsOf(e).args) = 1
    /\ FlagsOf(e).args[1] \in fs.files

\* the current input is a temporary file that exists
TmpInput == sh.istmp /\ sh.filename \in TmpSet /\ sh.filename \in fs.files

\* the errors with which the start of the command and the copy of its output
\* fail
ProducerFailures == {ExecError(ErrPipe), ExecError(ErrStart), ExecError(ErrCopy)}

\* the step created a temporary file and the script producing it did not fail
PipeSucceeded == fs'.ntmp = fs.ntmp + 1 /\ lastErr' \notin ProducerFailures

WorldAfter == [sh |-> sh', fs |-> fs']

\* C11: when pipe replaces a temporary-file input by a new temporary file,
\* exactly the old file is deleted (one os.Remove of it, no other file
\* disappears), the new file exists, and the new file is the current input.
C11_TmpReplacedByTmp ==
    [][\A e \in execs :
        (RunsPipeToFile(e) /\ TmpInput /\ PipeSucceeded) =>
            LET old == sh.filename
                new == TmpNames[fs.ntmp + 1]
            IN /\ old \notin fs'.files
               /\ new \in fs'.files
               /\ fs'.files = (fs.files \ {old}) \cup {new}
               /\ fs'.removes = [fs.removes EXCEPT ![old] = @ + 1]
               /\ sh'.filename = new
               /\ sh'.istmp
               /\ Input(WorldAfter, EnvOK) = [kind |-> "file", src |-> new,
                                       err |-> ErrNil]]_vars

C11_Witness ==
    /\ \E e \in execs : e.pc = "post" /\ e.cmd = <<InputCmd(version), "cat">>
    /\ sh.filename = TmpNames[2]
    /\ sh.istmp
    /\ fs.files \cap TmpSet = {TmpNames[2]}
    /\ fs.removes[TmpNames[1]] = 1

\* C12: whichever command replaces the input, no temporary file of the
\* session other than the current input is left on disk.
C12_NoTmpLeak == (fs.files \cap TmpSet) \subseteq {sh.filename}

\* C13: after a command has replaced the input, a query opens the source
\* that command set: the new temporary file after pipe, the named file after
\* load, the new producer after pipe -c, whatever the source was before.
C13_InputIsNewSource ==
    [][\A e \in execs :
        /\ (RunsPipeToFile(e) /\ PipeSucceeded) =>
              Input(WorldAfter, EnvOK) = [kind |-> "file",
                                   src |-> TmpNames[fs.ntmp + 1],
                                   err |-> ErrNil]
        /\ (RunsLoad(e) /\ execs' # execs) =>
              Input(WorldAfter, EnvOK) = [kind |-> "file",
                                   src |-> FlagsOf(e).args[1],
                                   err |-> ErrNil]
        /\ (RunsPipeNoCache(e) /\ execs' # execs) =>
              Input(WorldAfter, EnvOK) = [kind |-> "producer",
                                   src |-> Producer(e),
                                   err |-> ErrNil]]_vars

\* ---------------------------------------------------------------- C14
\* e is about to run pop with a well-formed count
RunsPop(e) ==
    /\ Runs(e, "pop")
    /\ FlagsOf(e).err = ErrNil
    /\ Len(FlagsOf(e).args) <= 1
    /\ \A i \in 1..Len(FlagsOf(e).args) :
          IsInt(FlagsOf(e).args[i]) /\ ~Negative(Atoi(FlagsOf(e).args[i]))

\* the count of e's pop, an int
PopCount(e) ==
    IF Len(FlagsOf(e).args) = 0 THEN "1" ELSE Atoi(FlagsOf(e).args[1])

\* C14: the pop command with count n on a stack of depth d signals
\* ErrStackEmpty and leaves the stack empty when d = 0; otherwise it removes
\* exactly the min(n, d) most recently pushed entries and signals no
\* stack error.
C14_PopCommand ==
    [][\A e \in execs :
        (RunsPop(e) /\ execs' # execs) =>
            LET d == Len(sh.Stack)
                n == PopCount(e)
            IN IF d = 0
               THEN sh'.Stack = <<>> /\ lastErr' = ExecError(ErrStackEmpty)
               ELSE /\ sh'.Stack = SubSeq(sh.Stack, 1, d - Capped(n, d))
                    /\ lastErr' # ExecError(ErrStackEmpty)]_vars

\* ---------------------------------------------------------------- C15-C17
\* C15: once the pops that follow the pushes have counts summing to at least
\* the number of pushes, the stack is empty and its joined expression is ".".
C15_PopsEmptyTheStack ==
    popsum >= npushed => (pipe = <<>> /\ JoinFilter(JQFilter(pipe)) = ".")

C15_Witness ==
    /\ npushed >= 2
    /\ popsum >= npushed
    /\ sop.op = "cmdPop"
    /\ sop.n >= 2
    /\ pipe = <<>>

\* the sum of the lengths of the first k fragments
RECURSIVE SumLen(_, _)
SumLen(frags, k) == IF k = 0 THEN 0 ELSE SumLen(frags, k - 1) + Len(frags[k])

\* where fragment i starts in the joined string
Offset(frags, i) == SumLen(frags, i - 1) + (i - 1) * Len(FilterJoinString) + 1

\* r is the fragments in order with " | " between neighbours
JoinedInOrder(frags, r) ==
    /\ Len(r) = SumLen(frags, Len(frags))
                  + (Len(frags) - 1) * Len(FilterJoinString)
    /\ \A i \in 1..Len(frags) :
          SubSeq(r, Offset(frags, i), Offset(frags, i) + Len(frags[i]) - 1)
              = frags[i]
    /\ \A i \in 1..(Len(frags) - 1) :
          SubSeq(r, Offset(frags, i) + Len(frags[i]),
                 Offset(frags, i + 1) - 1) = " | "

JoinOK(frags) ==
    /\ Len(frags) = 0 => JoinFilter(frags) = "."
    /\ Len(frags) > 0 => JoinedInOrder(frags, JoinFilter(frags))
    /\ frags = <<"hello", "world">> => JoinFilter(frags) = "hello | world"
    /\ frags = <<"!">> => JoinFilter(frags) = "!"

\* C16: JoinFilter gives "." for a filter with zero fragments and otherwise
\* the fragments in order with " | " between them; checked of the filter
\* pushed last and of the stack as a filter.
C16_JoinFilter == JoinOK(sop.arg) /\ JoinOK(JQFilter(pipe))

C16_Witness ==
    /\ sop.op = "push"
    /\ sop.arg = <<"hello", "world">>
    /\ Len(pipe) >= 2
    /\ JoinFilter(JQFilter(pipe)) = "! | hello | world"

\* C17: Push appends the fragments of the pushed filter to JQFilter(); Pop
\* removes the filter pushed last among those on the stack, whether or not
\* it has fragments, and JQFilter() loses exactly its fragments; Pop on an
\* empty stack leaves it empty.
C17_StackFragments ==
    [][/\ (nops' = nops + 1 /\ sop'.op = "push") =>
            /\ Len(pipe') = Len(pipe) + 1
            /\ JQFilter(pipe') = JQFilter(pipe) \o sop'.arg
       /\ (nops' = nops + 1 /\ sop'.op = "pop") =>
            IF pipe = <<>>
            THEN pipe' = <<>> /\ JQFilter(pipe') = <<>>
            ELSE /\ pipe' = SubSeq(pipe, 1, Len(pipe) - 1)
                 /\ JQFilter(pipe') \o pipe[Len(pipe)] = JQFilter(pipe)
       /\ pipe' = << <<"hello">>, <<>>, <<"world">> >> =>
            JQFilter(pipe') = <<"hello", "world">>
       /\ pipe' = << <<"hello">>, <<>> >> => JQFilter(pipe') = <<"hello">>]_vars

C17_Witness ==
    /\ sop.op = "pop"
    /\ sop.arg = <<>>
    /\ sop.err = ErrNil
    /\ pipe = << <<"hello">> >>
    /\ nops = 3

\* ---------------------------------------------------------------- C18-C20
\* a step that is one call of ReadCommand
ReadStep == rcalls' = rcalls + 1

\* the line without its newline
Chomp(l) ==
    IF Len(l) > 0 /\ l[Len(l)] = 10
    THEN SubSeq(l, 1, Len(l) - 1)
    ELSE l

\* the bytes of l at which a rune starts, reading from byte i
RECURSIVE RuneStarts(_, _)
RuneStarts(l, i) ==
    IF i > Len(l) THEN {}
    ELSE {i} \cup RuneStarts(l, i + DecodeRune(l, i).n)

\* the bytes of l that belong to a white space rune, and the others
SpaceBytes(l) ==
    UNION {i..(i + DecodeRune(l, i).n - 1) :
              i \in {j \in RuneStarts(l, 1) : IsSpaceAt(l, j)}}
NonSpace(l) == (1..Len(l)) \ SpaceBytes(l)
MinOf(S) == CHOOSE x \in S : \A y \in S : x <= y
MaxOf(S) == CHOOSE x \in S : \A y \in S : x >= y

\* the line from its first to its last byte that is not white space
Trimmed(l) ==
    IF NonSpace(l) = {} THEN <<>>
    ELSE SubSeq(l, MinOf(NonSpace(l)), MaxOf(NonSpace(l)))

StartsWith(l, c) == Len(l) > 0 /\ l[1] = ByteOf(c)

\* the classification by leading sigil of a line l that gave the command cmd
ClassifiedAs(l, cmd) ==
    /\ l = Bytes(".") => cmd = <<Bytes("write")>>
    /\ l = Bytes("..") => cmd = <<Bytes("pop")>>
    /\ StartsWith(l, "?") => cmd = <<Bytes("peek"), SubSeq(l, 2, Len(l))>>
    /\ (/\ NonSpace(l) # {}
        /\ l \notin {Bytes("."), Bytes("..")}
        /\ ~StartsWith(l, "?")
        /\ ~StartsWith(l, ":")) => cmd = <<Bytes("push"), l>>

\* C18 as stated: the line as read (without its newline) is classified by
\* its leading sigil: "." gives [write], ".." gives [pop], "?rest" gives
\* [peek, rest], any other line not starting with ":" gives [push, line].
C18_SigilsOnRawLine ==
    [][ReadStep => ClassifiedAs(Chomp(rline'), rout'.cmd)]_vars

\* C18 amended: the classification holds of the line with its leading and
\* trailing white space removed.
C18_SigilsOnTrimmedLine ==
    [][ReadStep =>
          /\ ClassifiedAs(Trimmed(rline'), rout'.cmd)
          /\ (~StartsWith(Trimmed(rline'), ":") /\ Trimmed(rline') # <<>>)
                 => rout'.err = ErrNil]_vars

C18_Witness ==
    /\ rcalls = 1
    /\ rline = Bytes(" ?a\n")
    /\ rout.cmd = <<Bytes("peek"), Bytes("a")>>

\* the first line of the input is blank and ends with a newline
BlankLineFirst(in) ==
    \E i \in 1..Len(in) :
        /\ in[i] = 10
        /\ NonSpace(SubSeq(in, 1, i)) = {}

\* C19: a call of ReadCommand that reads a blank line returns [write].
C19_BlankLineIsWrite ==
    [][(ReadStep /\ BlankLineFirst(rin)) => rout'.cmd = <<Bytes("write")>>]_vars

\* the words of str: its maximal runs of bytes that are not white space
WordStarts(str) ==
    {i \in NonSpace(str) : i = 1 \/ (i - 1) \in SpaceBytes(str)}
WordEnds(str) ==
    {i \in NonSpace(str) : i = Len(str) \/ (i + 1) \in SpaceBytes(str)}
Kth(S, k) == CHOOSE x \in S : Cardinality({y \in S : y < x}) = k - 1
Words(str) ==
    [k \in 1..Cardinality(WordStarts(str)) |->
        SubSeq(str, Kth(WordStarts(str), k), Kth(WordEnds(str), k))]

Pluses(str) == {p \in 1..Len(str) : str[p] = ByteOf("+")}

\* the command of the text after the colon: the words before the first '+'
\* and the text after it as the last argument; with notFirst, a first '+'
\* right after the colon is no marker
ColonSplit(rest, notFirst) ==
    IF Pluses(rest) # {} /\ (notFirst => MinOf(Pluses(rest)) > 1)
    THEN Words(SubSeq(rest, 1, MinOf(Pluses(rest)) - 1))
             \o <<SubSeq(rest, MinOf(Pluses(rest)) + 1, Len(rest))>>
    ELSE Words(rest)

\* C20 as stated: for a line starting with ":" the text after the colon is
\* split on white space; when a "+" is present the text after the first "+"
\* up to the end of the line is one last argument, verbatim.
C20_ColonOnRawLine ==
    [][(ReadStep /\ StartsWith(Chomp(rline'), ":")) =>
          rout'.cmd = ColonSplit(SubSeq(Chomp(rline'), 2, Len(Chomp(rline'))),
                                 FALSE)]_vars

\* C20 amended: the same of the line with its leading and trailing white
\* space removed, a "+" right after the colon not being a marker.
C20_ColonOnTrimmedLine ==
    [][(ReadStep /\ StartsWith(Trimmed(rline'), ":")) =>
          /\ rout'.cmd = ColonSplit(SubSeq(Trimmed(rline'), 2,
                                           Len(Trimmed(rline'))), TRUE)
          /\ rout'.err = ErrNil]_vars

C20_Witness ==
    /\ rcalls = 1
    /\ rline = Bytes(":push +.items | .[]")
    /\ rout = [cmd |-> <<Bytes("push"), Bytes(".items | .[]")>>, eof |-> TRUE,
               err |-> ErrNil]

\* ---------------------------------------------------------------- C21
EndsWithNewline(l) == Len(l) > 0 /\ l[Len(l)] = 10

\* the line a call of ReadCommand finds first in the input: the bytes up to
\* and including the first newline, or all of them when there is none
Newlines(in) == {i \in 1..Len(in) : in[i] = 10}
FirstLine(in) ==
    IF Newlines(in) = {} THEN in ELSE SubSeq(in, 1, MinOf(Newlines(in)))

\* cmd is the parsed command of the line l
LineCommand(l, cmd) ==
    /\ ClassifiedAs(Trimmed(l), cmd)
    /\ StartsWith(Trimmed(l), ":") =>
          cmd = ColonSplit(SubSeq(Trimmed(l), 2, Len(Trimmed(l))), TRUE)
    /\ Trimmed(l) = <<>> => cmd = <<>>

\* C21 (as claimed): a call of ReadCommand that finds the input exhausted
\* returns an empty command, the final flag and io.EOF; a call that finds a
\* last line without a newline returns the parsed command of that line
\* (possibly empty) with the final flag and no error; a call that finds a
\* line ending with a newline returns the final flag clear and no error,
\* with the parsed command of that line when the line is not blank.
C21_EndOfInputFraming ==
    [][ReadStep =>
          /\ rin = <<>> =>
                rout' = [cmd |-> <<>>, eof |-> TRUE, err |-> ErrEOF]
          /\ (rin # <<>> /\ ~EndsWithNewline(FirstLine(rin))) =>
                /\ rout'.eof
                /\ rout'.err = ErrNil
                /\ LineCommand(FirstLine(rin), rout'.cmd)
          /\ EndsWithNewline(FirstLine(rin)) =>
                /\ ~rout'.eof
                /\ rout'.err = ErrNil
                /\ Trimmed(FirstLine(rin)) # <<>> =>
                      LineCommand(FirstLine(rin), rout'.cmd)]_vars

\* ---------------------------------------------------------------- C27-C30
\* the executor e has finished its command and leaves in this step
Leaves(e) == e.pc = "post" /\ e \notin execs'

\* C27: when a dispatched command returned an error that is not the quit
\* outcome, the loop logs that error before it goes on or stops, also when
\* the command was the final one.
C27_CommandErrorsLogged ==
    [][\A e \in execs :
        (Leaves(e) /\ e.cmd # <<>> /\ e.res # ErrNil /\ ~isShellExit(e.res)) =>
            [rid |-> e.rid, what |-> "command", err |-> e.res] \in logs']_vars

\* C28: the filter stack after a peek command equals the stack before it,
\* whatever its arguments and whether or not its write succeeded.
C28_PeekKeepsStack ==
    [][\A e \in execs :
        (Runs(e, "peek") /\ execs' # execs) => sh'.Stack = sh.Stack]_vars

\* the error of a push of commands.go whose validation failed: jq rejected
\* the filter, or the validation timed out
ValidationFailure == {ExecError(ErrFilter(ErrExit1)), ExecError(ErrTimeout)}

\* C29: a push whose filter validation fails leaves the stack as it was
\* before the push, for any number of filter arguments.
C29_FailedValidationReverts ==
    [][\A e \in execs :
        (/\ Runs(e, "push")
         /\ version = "commands.go"
         /\ execs' # execs
         /\ lastErr' \in ValidationFailure) => sh'.Stack = sh.Stack]_vars

\* the error of a push of commands.go whose validation passed and whose
\* write failed
WriteFailure == {ExecError(ExecError(ErrExit1)), ExecError(ErrOpen),
                 ExecError(ErrPagerStart)}

\* C30: when the write that follows a push fails, the stack is again the
\* stack before the push: in jqsh.go the loop's follow-up write, in
\* commands.go the write at the end of cmdPush.
C30_FailedWriteReverts ==
    [][\A e \in execs :
        /\ (/\ Leaves(e)
            /\ version = "jqsh.go"
            /\ Len(e.cmd) > 0
            /\ Head(e.cmd) = "push"
            /\ \E l \in logs' : l.rid = e.rid /\ l.what = "write")
              => sh'.Stack = e.pre
        /\ (/\ Runs(e, "push")
            /\ version = "commands.go"
            /\ execs' # execs
            /\ lastErr' \in WriteFailure) => sh'.Stack = sh.Stack]_vars

\* ---------------------------------------------------------------- C25-C26
\* C25: on every return of Execute after a successful launch, the counts
\* returned equal the bytes that the sinks accept from the process over its
\* whole run (the counters count exactly the accepted bytes).
C25_CountsAreFinal ==
    (xpc = "returned" /\ launchOK) => (xres.nout = outn /\ xres.nerr = errn)

\* C26: when the executable cannot be started, Execute returns straight from
\* the failed start, without entering the select on the cancel signal: the
\* counts are 0 and 0, the error is the launch error, which is neither nil
\* nor the status of a process that exited or was killed, no byte reached a
\* sink, and no process was waited for or killed.
C26_LaunchFailure ==
    (xpc = "returned" /\ ~launchOK) =>
        /\ xres = [nout |-> 0, nerr |-> 0, err |-> ErrStart]
        /\ ErrStart \notin {ErrNil, ErrExit1, ErrKilled}
        /\ xpath = "launch"
        /\ outn = 0 /\ errn = 0
        /\ proc = "none" /\ waiter = "none" /\ killCalls = 0

C26_Witness ==
    /\ xpc = "returned" /\ ~launchOK
    /\ xstopKind = "chan" /\ ~xstop
    /\ xres.err = ErrStart

\* ---------------------------------------------------------------- C22-C24
\* C22: when the write command has returned, its output sink is not left
\* open: it was never opened, or it has been closed.
C22_SinkClosedOnExit == wr.pc = "returned" => wr.sink # "open"

\* what cmdWrite_io returns: the error of opening the input, or the wrapped
\* error of Execute
QueryOutcome ==
    IF wr.input = "openerr" THEN ErrOpen
    ELSE IF wr.input = "noinput" THEN ErrNil
    ELSE IF xres.err # ErrNil THEN ExecError(xres.err)
    ELSE ErrNil

WritePageReturned == wr.kind = "page" /\ wr.pc = "returned"

\* C23 as stated: the result of a write to the pager is never the pager's
\* failure, and it is success whenever the query did not fail.
C23_PagerFailureNeverResult ==
    WritePageReturned =>
        /\ pg.err # ErrNil => wr.res # pg.err
        /\ QueryOutcome = ErrNil => wr.res = ErrNil

\* C23, amended: once cmdWrite_page has found the pager running at its
\* initial check, the result of the write is the outcome of the query alone
\* and a pager failure is only logged; a pager error that is already
\* reported at the initial check (Page could not start the pager, or the
\* pager has exited with an error) is returned as the write's error before
\* any query is run.
C23_PagerFailureAfterCheck ==
    WritePageReturned =>
        /\ wr.checked =>
              /\ wr.res = QueryOutcome
              /\ wr.res \notin {ErrPipe, ErrStart, ErrExit1}
              /\ wr.logged \subseteq {pg.err} \ {ErrNil}
              /\ (QueryOutcome = ErrNil /\ pg.err # ErrNil) => wr.logged = {pg.err}
        /\ ~wr.checked =>
              /\ wr.res = pg.err
              /\ xpc = "idle"
              /\ wr.logged = {}

C23_Witness ==
    /\ WritePageReturned /\ wr.checked
    /\ pg.err = ErrExit1 /\ wr.logged = {ErrExit1}
    /\ xpath = "stop" /\ wr.res = ErrNil

\* the session is shutting down: the loop's stop channel is closed, or a
\* quit, a final command or a fatal read error has been seen
Shutdown == stop \/ quitSeen \/ finalSeen \/ fatalSeen

\* C24 (as claimed): the cancel signal of an Execute call fires only when
\* the session is shutting down.
C24_CancelOnlyOnShutdown == [][(xstop' /\ ~xstop) => Shutdown]_vars

\* ---------------------------------------------------------------- C31
Scenario == << <<"load", "data.json">>, <<"push", ".items[]">>,
               <<"push", ".name">>, <<"pop", "1">>, <<"write">> >>

DataJson == [kind |-> "file", src |-> "data.json", err |-> ErrNil]

\* r is the fragments frags joined: "." for none, otherwise the fragments
\* in order with " | " between neighbours
IsJoinOf(frags, r) ==
    IF Len(frags) = 0 THEN r = "." ELSE JoinedInOrder(frags, r)

\* the commands of a history that replace the input source, and those of
\* them that cache the command's output in a temporary file
Replaces(cmd) == Head(cmd) \in {"load", "pipe", "exec"}
Caches(cmd) == Head(cmd) \in {"pipe", "exec"} /\ Len(cmd) = 2
NumCached(cmds) == Cardinality({i \in 1..Len(cmds) : Caches(cmds[i])})

\* the input source a history of successful commands leaves current: none
\* before the first replacing command; after it the source named by the
\* last one, which is the file of a load, the newest temporary file of a
\* cached command, or the producer given with -c
NoSource == [kind |-> "none", src |-> "", err |-> ErrNoInput]

SourceOf(cmds, i) ==
    IF Head(cmds[i]) = "load"
    THEN [kind |-> "file", src |-> cmds[i][2], err |-> ErrNil]
    ELSE IF Caches(cmds[i])
    THEN [kind |-> "file", src |-> TmpNames[NumCached(SubSeq(cmds, 1, i))],
          err |-> ErrNil]
    ELSE [kind |-> "producer", src |-> cmds[i][3], err |-> ErrNil]

SourceAfter(cmds) ==
    IF \A i \in 1..Len(cmds) : ~Replaces(cmds[i]) THEN NoSource
    ELSE SourceOf(cmds, MaxOf({i \in 1..Len(cmds) : Replaces(cmds[i])}))

\* C31 (as claimed): with jq, the pager and the files working, every jq
\* call that a command's write makes has as its expression the fragments of
\* the stack the command leaves, joined, and as its standard input the
\* input source that the last load, pipe or exec of the history set; a
\* write command makes exactly one call when the history has set a source.
\* Starting with no input, after load data.json, push .items[], push .name
\* the write that follows runs ".items[] | .name", and after pop 1 the write
\* runs ".items[]", both against data.json.
C31_WriteRunsJoinedStack ==
    /\ (qs.ok /\ qs.cmds # <<>>) =>
          /\ \A i \in 1..Len(qs.calls) :
                /\ IsJoinOf(sh.Stack, qs.calls[i].expr)
                /\ qs.calls[i].in = SourceAfter(qs.cmds)
          /\ (/\ qs.cmds[Len(qs.cmds)] = <<"write">>
              /\ SourceAfter(qs.cmds) # NoSource) => Len(qs.calls) = 1
    /\ (qs.ok /\ qs.cmds = SubSeq(Scenario, 1, 3)) =>
          /\ qs.calls # <<>>
          /\ qs.calls[Len(qs.calls)] = [expr |-> ".items[] | .name", in |-> DataJson]
    /\ (qs.ok /\ qs.cmds = Scenario) =>
          qs.calls = << [expr |-> ".items[]", in |-> DataJson] >>

\* ---------------------------------------------------------------- C32
NamesOf(m) == {e.name : e \in m}

\* C32: a call of Register or RegisterHelp with a name that is already a
\* command or a help topic panics in that call and leaves both maps as they
\* were; a call with a free name adds exactly that entry; so no name is ever
\* a command and a help topic, or registered twice.
C32_DuplicateRegistration ==
    [][lib' # lib =>
         /\ IF lib'.last.name \in NamesOf(lib.cmds) \cup NamesOf(lib.topics)
            THEN /\ lib'.panic # ""
                 /\ lib'.cmds = lib.cmds
                 /\ lib'.topics = lib.topics
            ELSE /\ lib'.panic = ""
                 /\ NamesOf(lib'.cmds) \cup NamesOf(lib'.topics)
                      = NamesOf(lib.cmds) \cup NamesOf(lib.topics)
                          \cup {lib'.last.name}
                 /\ lib.cmds \subseteq lib'.cmds
                 /\ lib.topics \subseteq lib'.topics
         /\ NamesOf(lib'.cmds) \cap NamesOf(lib'.topics) = {}
         /\ Cardinality(lib'.cmds) = Cardinality(NamesOf(lib'.cmds))
         /\ Cardinality(lib'.topics) = Cardinality(NamesOf(lib'.topics))]_vars

C32_Witness ==
    /\ lib.panic # ""
    /\ lib.last = [op |-> "RegisterHelp", name |-> "push"]
    /\ "push" \in NamesOf(lib.cmds)
    /\ "push" \notin NamesOf(lib.topics)

\* ---------------------------------------------------------------- C33
\* the executor e hands its command to Lib.Execute in this step and becomes d
Dispatches(e, d) ==
    /\ e \in execs /\ e.pc = "exec" /\ e.cmd # <<>>
    /\ e.err \in {ErrNil, ErrEOF}
    /\ d \in execs' /\ d.id = e.id /\ d.pc = "post"

\* what Lib.Execute does with a name that is in lib.cmds: that handler runs,
\* and its error comes back inside an ExecError with the name and arguments
RegisteredCase(e, d) ==
    /\ d.disp.invoked = Head(e.cmd)
    /\ d.disp.cause = ErrNil => d.res = ErrNil
    /\ d.disp.cause # ErrNil =>
          /\ d.res = ExecError(d.disp.cause)
          /\ d.disp.cmd = e.cmd
          /\ isShellExit(d.res) = isShellExit(d.disp.cause)
    /\ (Head(e.cmd) = "quit" /\ Flags(e.cmd, version).err = ErrNil) =>
          (d.disp.cause = ShellExit /\ isShellExit(d.res))

UnknownCase(e, d) ==
    /\ d.res = ErrUnknown
    /\ d.disp.invoked = ""
    /\ sh' = sh /\ fs' = fs

\* C33 as stated: every name that is not registered is an unknown command.
C33_UnregisteredIsUnknown ==
    [][\A e \in execs : \A d \in execs' :
         Dispatches(e, d) =>
            IF Head(e.cmd) \in RegisteredIn(version)
            THEN RegisteredCase(e, d)
            ELSE UnknownCase(e, d)]_vars

\* C33, amended: the name help is built into Lib.Execute: it runs the
\* library's help and returns nil, changing neither the stack nor the input.
\* Every other name that is not registered is an unknown command and runs
\* no handler; a registered name runs exactly its handler, whose error comes
\* back wrapped with the name and arguments, the cause preserved.
C33_LibExecute ==
    [][\A e \in execs : \A d \in execs' :
         Dispatches(e, d) =>
            IF Head(e.cmd) = "help"
            THEN /\ d.res = ErrNil /\ d.disp.invoked = "help"
                 /\ sh' = sh /\ fs' = fs
            ELSE IF Head(e.cmd) \in RegisteredIn(version)
            THEN RegisteredCase(e, d)
            ELSE UnknownCase(e, d)]_vars

C33_Witness ==
    \E d \in execs :
        /\ d.pc = "post" /\ d.cmd = <<"load", "data.json">>
        /\ d.disp.invoked = "load" /\ d.disp.cmd = d.cmd
        /\ d.res = ExecError(d.disp.cause) /\ d.disp.cause # ErrNil

\* ---------------------------------------------------------------- C34
\* the text after the colon of a command line
AfterColon(line) == SubSeq(Trimmed(line), 2, Len(Trimmed(line)))

\* the "+" of rest that begin a token: at the start or after white space
BoundaryPluses(rest) ==
    {i \in Pluses(rest) : i = 1 \/ (i - 1) \in SpaceBytes(rest)}

\* C34: in a ":" command whose "+" all occur inside words, no word is split:
\* the command is the text after the colon split on white space.
C34_PlusInsideWord ==
    [][(/\ ReadStep
        /\ StartsWith(Trimmed(rline'), ":")
        /\ Pluses(AfterColon(rline')) # {}
        /\ BoundaryPluses(AfterColon(rline')) = {}) =>
          rout'.cmd = Words(AfterColon(rline'))]_vars

\* ---------------------------------------------------------------- C35
\* where the lexer is: everything that decides what it does next
LexControl(l) == <<l.pos, l.start, l.width, l.fn, l.q>>

\* C35: lexing a line terminates: no state function or loop iteration leaves
\* the lexer where it was (the lexer is deterministic, so an iteration that
\* does would be repeated for ever).
C35_LexerTerminates ==
    [][lx'.steps = lx.steps + 1 => LexControl(lx') # LexControl(lx)]_vars

\* ---------------------------------------------------------------- C36
\* what is outstanding in the loop's channel protocol: buffered ready
\* tokens, reads in flight or delivered and not yet received, commands
\* executing
Outstanding == ready + Cardinality(readers) + Cardinality(execs)

\* C36: at most one of a ready token, a read in flight, a read result awaiting
\* the loop and an executing command is outstanding; the ready channel never
\* holds more than its one token and no send on it blocks; stop is closed at
\* most once, and only when nothing else is outstanding.
C36_ChannelProtocol ==
    /\ Outstanding <= 1
    /\ ready <= ReadyCap
    /\ loopPc # "blocked"
    /\ stopCloses <= 1
    /\ stopCloses = 1 => (stop /\ Outstanding = 0)

C36_Witness ==
    /\ stopCloses = 1
    /\ Len(execIds) >= 2
    /\ \E i \in 1..Len(readIds) : readIds[i] >= 3

\* ---------------------------------------------------------------- C37
\* the pager subprocess of the write is not running: it was never started,
\* or it has exited
PagerGone == pg.proc \in {"none", "exited", "reaped"}

\* C37 (as claimed): a paged write returns only after the pager started for
\* it has exited, on every return path, the path where the query fails
\* included.
C37_PagedWriteWaitsForPager ==
    (wr.kind = "page" /\ wr.pc = "returned") => PagerGone

\* ---------------------------------------------------------------- C38
\* a load command that cmdLoad rejects: not exactly one file name, or a file
\* that cannot be opened
BadLoad(cmd) ==
    /\ Len(cmd) >= 1
    /\ Head(cmd) = "load"
    /\ Flags(cmd, version).err = ErrNil
    /\ \/ Len(Flags(cmd, version).args) # 1
       \/ Flags(cmd, version).args[1] \notin fs.files

\* C38: a load with a wrong number of arguments, or of a file that cannot be
\* opened, returns an error and changes neither the input source (file name,
\* temporary flag, producer, files on disk) nor the filter stack.
C38_FailedLoadChangesNothing ==
    [][\A e \in execs :
          (e.pc = "exec" /\ e.err \in {ErrNil, ErrEOF} /\ BadLoad(e.cmd)
           /\ e \notin execs')
          => /\ sh' = sh
             /\ fs' = fs
             /\ \E d \in execs' : d.id = e.id /\ d.pc = "post" /\ d.res # ErrNil
      ]_vars

C38_Witness ==
    /\ sh.Stack # <<>>
    /\ sh.filename = "data.json"
    /\ \E e \in execs : /\ e.pc = "post"
                        /\ e.cmd = <<"load", "missing.json">>
                        /\ e.res = ExecError(ErrOpen)

\* ---------------------------------------------------------------- C39
\* the errors with which the input-producing command itself fails
PipeFailures == {ErrMissing, ErrPipe, ErrStart, ErrCopy, ErrPanic, ErrNilDeref}

\* C39 (as claimed): when the input-producing command fails (no command
\* given, the command cannot be started, or copying its output fails) it
\* returns an error and does not crash, the input source is unchanged, and
\* the files on disk are the ones there were before: no temporary file of
\* the attempt is left.
C39_FailedPipeLeavesNothing ==
    [][\A e \in execs : \A d \in execs' :
          (e.pc = "exec" /\ d.id = e.id /\ d.pc = "post"
           /\ d.disp.invoked = InputCmd(version)
           /\ d.disp.cause \in PipeFailures)
          => /\ d.disp.cause \notin {ErrPanic, ErrNilDeref}
             /\ d.res # ErrNil
             /\ sh' = sh
             /\ fs'.files = fs.files
      ]_vars
====
